---- MODULE Spec2Model ----
(***************************************************************************)
(* Verification model of the content-moderation pipeline.                  *)
(*                                                                         *)
(* Flow A: ModerationService.moderate_content over ReputationService,      *)
(*         TriageService and MLScoringService.                             *)
(* Flow B: ModerationFlinkProcessor.process_message over StateBackend.     *)
(*                                                                         *)
(* Numbers are exact fixed point:                                          *)
(*   probabilities and confidences   in 1/1000      (0.85  -> 850)         *)
(*   reputation scores (0..100)      in 1/1000      (50.0  -> 50000)       *)
(*   risk_score (0..1)               in 1/100000    (0.5   -> 50000)       *)
(*   combined_risk_score (0..1)      in 1/1000000   (0.6   -> 600000)      *)
(*   Flow A clock                    in days                               *)
(*   Flow B timestamps               in milliseconds                       *)
(*   Flow B scores (0..1)            in 1/1000                             *)
(* Python None is the empty sequence <<>>, an Optional value x is <<x>>.   *)
(***************************************************************************)
EXTENDS Integers, Sequences, FiniteSets, TLC

VARIABLES
    \* ---- Flow A ----
    now,               \* datetime.utcnow(), in days
    users,             \* ReputationService.users : user id -> User
    reputation_cache,  \* ReputationService.reputation_cache (ids whose record is cached)
    recent_hashes,     \* TriageService.recent_hashes
    calls,             \* number of calls made on the services
    last,              \* the ModerationPipelineResult of the latest call (<<>> before any)
    observed,          \* the latest direct call on ReputationService, with what it returned
    \* ---- Flow B ----
    heap,              \* the inner dicts of StateBackend.keyed_state, by object identity
    keyed_state,       \* StateBackend.keyed_state : key -> inner dict object
    checkpoints,       \* StateBackend.checkpoints
    operator_state,    \* StateBackend.operator_state
    current_watermark, \* ModerationFlinkProcessor.current_watermark
    metrics,           \* ModerationFlinkProcessor.metrics
    handled,           \* every process_message call so far, with its outcome
    snapshots,         \* what each checkpoint() call saw, by value
    installed,         \* the checkpoint just taken or restored, until the state is touched
    restore_calls,     \* number of restore calls made
    epoch,             \* the checkpoint the current run descends from
    first_run,         \* the process_message calls made since epoch
    replay,            \* after restore(epoch): the calls to repeat and those repeated
    \* ---- window assigners ----
    assigner,          \* a window assigner object (its parameters and its sessions)
    assigned,          \* every assign_windows call made on it, with what it returned
    \* ---- RealTimeService ----
    user_windows,      \* RealTimeService.user_windows : user id -> UserWindow
    rt_metrics,        \* RealTimeService.metrics
    utcnow,            \* datetime.utcnow() as RealTimeService reads it, in milliseconds
    answered,           \* every RealTimeService.process_message call, with its outcome
    \* ---- Transports ----
    key_hash,          \* hash() of each partition key in this interpreter run
    shards,            \* KinesisStream.shards : shard -> KinesisShard
    running,           \* KinesisConsumer.running
    iterators,         \* the iterator of each shard task, None before the task exists
    consumer_checkpoints, \* KinesisConsumer.checkpoints : shard -> KinesisCheckpoint
    processor_log,     \* the records passed to the consumer's processor, in order
    sent,              \* the chat messages sent, with the consumer's state at the put
    polls,             \* polling rounds made
    tier1_queue,       \* ContentModerationSQSHandler.tier1_queue
    dlq,               \* ContentModerationSQSHandler.dlq
    consumer_metrics,  \* SQSConsumer.metrics
    acknowledged,      \* message ids deleted after their batch was processed
    raised_for,        \* message ids whose batch processing raised
    submitted          \* contents submitted to the tier 1 queue

varsA == <<now, users, reputation_cache, recent_hashes, calls, last, observed>>
varsP == <<heap, keyed_state, checkpoints, operator_state, current_watermark,
           metrics, handled, snapshots, installed, restore_calls, epoch, first_run,
           replay>>
varsW == <<assigner, assigned>>
varsR == <<user_windows, rt_metrics, utcnow, answered>>
varsK == <<key_hash, shards, running, iterators, consumer_checkpoints, processor_log,
           sent, polls>>
varsQ == <<tier1_queue, dlq, consumer_metrics, acknowledged, raised_for, submitted>>
varsT == <<varsK, varsQ>>
varsB == <<varsP, varsW, varsR, varsT>>
vars == <<varsA, varsB>>

NoneT == <<>>
Some(x) == <<x>>
Min(a, b) == IF a <= b THEN a ELSE b
Max(a, b) == IF a >= b THEN a ELSE b
Range(s) == {s[i] : i \in DOMAIN s}
\* every ordering of a finite set, as a list (Python's list(set(...)) picks one)
ListsOf(S) == {s \in [1..Cardinality(S) -> S] : Range(s) = S}

(***************************************************************************)
(* Bounds of the model                                                     *)
(***************************************************************************)
MaxCalls == 2
MaxDay == 30
MaxAge == 90
MaxTriage == 3
MaxSeed == 4

(***************************************************************************)
(* models/enums.py                                                         *)
(***************************************************************************)
SEV_NONE == 0
SEV_LOW == 1
SEV_MEDIUM == 2
SEV_HIGH == 3
SEV_CRITICAL == 4

PRIO_LOW == 1
PRIO_MEDIUM == 2
PRIO_HIGH == 3
PRIO_URGENT == 4
PRIO_CRITICAL == 5

ContentStatus == {"pending", "in_review", "approved", "rejected", "escalated", "quarantined"}
UserRiskLevel == {"trusted", "normal", "watch", "restricted", "banned"}

(***************************************************************************)
(* services/reputation_service.py, models/user.py                          *)
(***************************************************************************)
Users == {"u1", "u2"}

W_APPROVAL_RATE == 3
W_ACCOUNT_AGE == 2
W_VIOLATION_HISTORY == 3
W_COMMUNITY_STANDING == 2
VIOLATION_DECAY_DAYS == 90

\* round(1000 * exp(-days / VIOLATION_DECAY_DAYS)) for days = 0, 30, 60, ...
DecayTable == <<1000, 717, 513, 368, 264, 189, 135, 97, 69, 50, 36, 26, 18, 13, 9, 7, 5>>
\* variant: violations never decay
decay_factor_none(days_ago) == 1000

decay_factor(days_ago) ==
    LET k == (days_ago * 3) \div VIOLATION_DECAY_DAYS
    IN IF days_ago < 0 THEN 1000
       ELSE IF k + 1 > Len(DecayTable) THEN 0 ELSE DecayTable[k + 1]

ReputationScore(t) ==
    [overall_score |-> 50000, community_standing |-> 50000, account_age_factor |-> 0,
     total_posts |-> 0, approved_posts |-> 0, rejected_posts |-> 0,
     approval_rate |-> 1000, posts_last_hour |-> 0,
     total_violations |-> 0, violations_last_30_days |-> 0,
     violation_history |-> <<>>, last_updated |-> t, last_violation |-> NoneT]

User(t) ==
    [reputation |-> ReputationScore(t), risk_level |-> "normal",
     is_muted |-> FALSE, muted_until |-> NoneT,
     is_banned |-> FALSE, banned_until |-> NoneT, ban_reason |-> NoneT,
     rate_limit_multiplier |-> 10, created_at |-> t]

\* variant: the third rule needs both of its conditions
calculate_risk_level_strict_watch(reputation) ==
    IF reputation.overall_score >= 80000 /\ reputation.violations_last_30_days = 0
    THEN "trusted"
    ELSE IF reputation.overall_score >= 50000 /\ reputation.violations_last_30_days <= 1
    THEN "normal"
    ELSE IF reputation.overall_score >= 30000 /\ reputation.violations_last_30_days <= 3
    THEN "watch"
    ELSE IF reputation.overall_score >= 10000
    THEN "restricted"
    ELSE "banned"

calculate_risk_level(reputation) ==
    IF reputation.overall_score >= 80000 /\ reputation.violations_last_30_days = 0
    THEN "trusted"
    ELSE IF reputation.overall_score >= 50000 /\ reputation.violations_last_30_days <= 1
    THEN "normal"
    ELSE IF reputation.overall_score >= 30000 \/ reputation.violations_last_30_days <= 3
    THEN "watch"
    ELSE IF reputation.overall_score >= 10000
    THEN "restricted"
    ELSE "banned"

RECURSIVE total_impact(_, _)
total_impact(violations, t) ==
    IF violations = <<>> THEN 0
    ELSE LET violation == Head(violations)
             days_ago == t - violation.timestamp
             severity_weight == violation.severity * 10
         IN severity_weight * decay_factor(days_ago) + total_impact(Tail(violations), t)

_calculate_violation_impact(violations, t) ==
    IF violations = <<>> THEN 0 ELSE Min(100000, total_impact(violations, t))

\* The reputation record of a known user after calculate_reputation at time t.
recalculated(user, t) ==
    LET reputation == user.reputation
        approval_rate == IF reputation.total_posts > 0
                         THEN (reputation.approved_posts * 1000) \div reputation.total_posts
                         ELSE reputation.approval_rate
        account_age_days == t - user.created_at
        account_age_factor == Min(100000, (account_age_days * 100000) \div 365)
        violation_score == _calculate_violation_impact(reputation.violation_history, t)
        overall_score ==
              approval_rate * 10 * W_APPROVAL_RATE
            + (account_age_factor * W_ACCOUNT_AGE) \div 10
            + ((100000 - violation_score) * W_VIOLATION_HISTORY) \div 10
            + (reputation.community_standing * W_COMMUNITY_STANDING) \div 10
    IN [reputation EXCEPT !.approval_rate = approval_rate,
                          !.account_age_factor = account_age_factor,
                          !.overall_score = overall_score,
                          !.last_updated = t]

\* The service state is S = [users, reputation_cache].
calculate_reputation(S, user_id, t) ==
    IF user_id \notin DOMAIN S.users THEN S
    ELSE [users |-> [S.users EXCEPT ![user_id].reputation = recalculated(S.users[user_id], t)],
          reputation_cache |-> S.reputation_cache \cup {user_id}]

\* variant: the ban needs more than five violations
_apply_automatic_sanctions_late_ban(user, violation_type, severity, t) ==
    IF violation_type \in {"csam", "threat"}
    THEN [user EXCEPT !.is_banned = TRUE, !.ban_reason = Some("critical")]
    ELSE LET recent_violations == user.reputation.violations_last_30_days
         IN IF recent_violations > 5
            THEN [user EXCEPT !.is_banned = TRUE, !.banned_until = Some(t + 30),
                              !.ban_reason = Some("repeated")]
            ELSE IF recent_violations >= 3
            THEN [user EXCEPT !.is_muted = TRUE, !.muted_until = Some(t + 1),
                              !.risk_level = "restricted"]
            ELSE IF recent_violations >= 2
            THEN [user EXCEPT !.risk_level = "watch", !.rate_limit_multiplier = 20]
            ELSE user

_apply_automatic_sanctions(user, violation_type, severity, t) ==
    IF violation_type \in {"csam", "threat"}
    THEN [user EXCEPT !.is_banned = TRUE, !.ban_reason = Some("critical")]
    ELSE LET recent_violations == user.reputation.violations_last_30_days
         IN IF recent_violations >= 5
            THEN [user EXCEPT !.is_banned = TRUE, !.banned_until = Some(t + 30),
                              !.ban_reason = Some("repeated")]
            ELSE IF recent_violations >= 3
            THEN [user EXCEPT !.is_muted = TRUE, !.muted_until = Some(t + 1),
                              !.risk_level = "restricted"]
            ELSE IF recent_violations >= 2
            THEN [user EXCEPT !.risk_level = "watch", !.rate_limit_multiplier = 20]
            ELSE user

\* variant: the new record is put in front of the history
record_violation_prepending(S, user_id, violation_type, severity, content_id, t) ==
    IF user_id \notin DOMAIN S.users THEN S
    ELSE LET violation == [violation_type |-> violation_type, severity |-> severity,
                           content_id |-> content_id, timestamp |-> t,
                           action_taken |-> "content_rejected"]
             r0 == S.users[user_id].reputation
             r1 == [r0 EXCEPT !.violation_history = <<violation>> \o @,
                              !.total_violations = @ + 1,
                              !.violations_last_30_days = @ + 1,
                              !.last_violation = Some(t),
                              !.rejected_posts = @ + 1]
             S1 == calculate_reputation(
                       [S EXCEPT !.users[user_id].reputation = r1], user_id, t)
             u1 == [S1.users[user_id] EXCEPT
                       !.risk_level = calculate_risk_level(S1.users[user_id].reputation)]
         IN [S1 EXCEPT !.users[user_id] =
                 _apply_automatic_sanctions(u1, violation_type, severity, t)]

record_violation(S, user_id, violation_type, severity, content_id, t) ==
    IF user_id \notin DOMAIN S.users THEN S
    ELSE LET violation == [violation_type |-> violation_type, severity |-> severity,
                           content_id |-> content_id, timestamp |-> t,
                           action_taken |-> "content_rejected"]
             r0 == S.users[user_id].reputation
             r1 == [r0 EXCEPT !.violation_history = Append(@, violation),
                              !.total_violations = @ + 1,
                              !.violations_last_30_days = @ + 1,
                              !.last_violation = Some(t),
                              !.rejected_posts = @ + 1]
             S1 == calculate_reputation(
                       [S EXCEPT !.users[user_id].reputation = r1], user_id, t)
             u1 == [S1.users[user_id] EXCEPT
                       !.risk_level = calculate_risk_level(S1.users[user_id].reputation)]
         IN [S1 EXCEPT !.users[user_id] =
                 _apply_automatic_sanctions(u1, violation_type, severity, t)]

\* variant: an approval of an unknown user registers the user first
record_approval_registering(S, user_id, t) ==
    LET S0 == IF user_id \notin DOMAIN S.users
              THEN [S EXCEPT !.users = (user_id :> User(t)) @@ @] ELSE S
        r0 == S0.users[user_id].reputation
        r1 == [r0 EXCEPT !.total_posts = @ + 1,
                         !.approved_posts = @ + 1,
                         !.overall_score = Min(100000, @ + 100)]
    IN calculate_reputation([S0 EXCEPT !.users[user_id].reputation = r1], user_id, t)

record_approval(S, user_id, t) ==
    IF user_id \notin DOMAIN S.users THEN S
    ELSE LET r0 == S.users[user_id].reputation
             r1 == [r0 EXCEPT !.total_posts = @ + 1,
                              !.approved_posts = @ + 1,
                              !.overall_score = Min(100000, @ + 100)]
         IN calculate_reputation([S EXCEPT !.users[user_id].reputation = r1], user_id, t)

_get_rate_limit(risk_level, period) ==
    CASE risk_level = "trusted"    -> IF period = "minute" THEN 20 ELSE 200
      [] risk_level = "normal"     -> IF period = "minute" THEN 10 ELSE 100
      [] risk_level = "watch"      -> IF period = "minute" THEN 5 ELSE 50
      [] risk_level = "restricted" -> IF period = "minute" THEN 2 ELSE 20
      [] risk_level = "banned"     -> 0
      [] OTHER                     -> IF period = "minute" THEN 10 ELSE 100

\* get_risk_profile reading the stored risk level and the ban flag of the record
get_risk_profile_stored_level(S, user_id, t) ==
    IF user_id \notin DOMAIN S.users
    THEN [S |-> S,
          profile |-> [user_id |-> user_id, risk_level |-> "normal", risk_score |-> 50000,
                       requires_human_review |-> FALSE, fast_track_approved |-> FALSE,
                       shadow_banned |-> FALSE, max_posts_per_minute |-> 10,
                       max_posts_per_hour |-> 100, is_bursting |-> FALSE]]
    ELSE LET S1 == calculate_reputation(S, user_id, t)
             user == S1.users[user_id]
             reputation == user.reputation
             risk_level == IF user.is_banned THEN "banned"
                           ELSE calculate_risk_level(reputation)
         IN [S |-> S1,
             profile |-> [user_id |-> user_id, risk_level |-> risk_level,
                          risk_score |-> 100000 - reputation.overall_score,
                          requires_human_review |-> risk_level \in {"watch", "restricted"},
                          fast_track_approved |-> risk_level = "trusted",
                          shadow_banned |-> user.is_banned /\ user.banned_until = NoneT,
                          max_posts_per_minute |-> _get_rate_limit(risk_level, "minute"),
                          max_posts_per_hour |-> _get_rate_limit(risk_level, "hour"),
                          is_bursting |-> 2 * reputation.posts_last_hour
                                            > _get_rate_limit(risk_level, "hour")]]

\* get_risk_profile returns the profile and leaves the service state it has written.
get_risk_profile(S, user_id, t) ==
    IF user_id \notin DOMAIN S.users
    THEN [S |-> S,
          profile |-> [user_id |-> user_id, risk_level |-> "normal", risk_score |-> 50000,
                       requires_human_review |-> FALSE, fast_track_approved |-> FALSE,
                       shadow_banned |-> FALSE, max_posts_per_minute |-> 10,
                       max_posts_per_hour |-> 100, is_bursting |-> FALSE]]
    ELSE LET S1 == calculate_reputation(S, user_id, t)
             user == S1.users[user_id]
             reputation == user.reputation
             risk_level == calculate_risk_level(reputation)
         IN [S |-> S1,
             profile |-> [user_id |-> user_id, risk_level |-> risk_level,
                          risk_score |-> 100000 - reputation.overall_score,
                          requires_human_review |-> risk_level \in {"watch", "restricted"},
                          fast_track_approved |-> risk_level = "trusted",
                          shadow_banned |-> user.is_banned /\ user.banned_until = NoneT,
                          max_posts_per_minute |-> _get_rate_limit(risk_level, "minute"),
                          max_posts_per_hour |-> _get_rate_limit(risk_level, "hour"),
                          is_bursting |-> 2 * reputation.posts_last_hour
                                            > _get_rate_limit(risk_level, "hour")]]

update_velocity(S, user_id) ==
    IF user_id \notin DOMAIN S.users THEN S
    ELSE [S EXCEPT !.users[user_id].reputation.posts_last_hour = @ + 1,
                   !.users[user_id].reputation.total_posts = @ + 1]

(***************************************************************************)
(* Sample texts.  Each name stands for one concrete text_content; the      *)
(* operators below give what the service's regexes, len() and md5 return   *)
(* on it.                                                                  *)
(*   "none"     None                       (image-only content)            *)
(*   "clean"    "Great game"                                               *)
(*   "threat"   "bomb threat"                                              *)
(*   "spamdom"  "free money http://spam-domain.net"                        *)
(*   "spam"     "limited time offer"                                       *)
(*   "prof"     "damn"                                                     *)
(*   "spamprof" "limited time offer damn"  (handed to triage directly)     *)
(***************************************************************************)
Texts == {"none", "clean", "threat", "spamdom", "spam", "prof"}

\* content.text_content or ""
text_or_empty(text) == IF text = "none" THEN "" ELSE text

\* len(text)
text_len(text) ==
    CASE text = "clean" -> 10
      [] text = "threat" -> 11
      [] text = "spamdom" -> 33
      [] text = "spam" -> 18
      [] text = "prof" -> 4
      [] text = "spamprof" -> 23
      [] OTHER -> 0

\* hashlib.md5(text.encode()).hexdigest(): one digest per distinct string
md5(text) == <<"md5", text_len(text), text>>

\* TriageService._check_critical: one THREAT per critical regex that matches
_check_critical(text) ==
    IF text = "threat" THEN <<"threat">> ELSE <<>>

_check_blocked_domains(text) == text = "spamdom"

\* TriageService._check_spam: the matched pattern labels
_check_spam(text) ==
    CASE text = "spamdom" -> <<"regex:free">>
      [] text = "spam" -> <<"regex:limited">>
      [] text = "spamprof" -> <<"regex:limited">>
      [] OTHER -> <<>>

_check_profanity(text) ==
    IF text \in {"prof", "spamprof"} THEN <<"profanity">> ELSE <<>>

(***************************************************************************)
(* services/triage_service.py                                              *)
(***************************************************************************)
hash_cache_size == 10000

\* recent_hashes is a set of digests.  An element <<"others", n, "">> stands for n
\* further digests, of texts that are not triaged again.
others(hashes) == {h \in hashes : h[1] = "others"}
others_count(hashes) ==
    IF others(hashes) = {} THEN 0 ELSE (CHOOSE h \in others(hashes) : TRUE)[2]

\* len(self.recent_hashes)
hashes_len(hashes) == Cardinality(hashes \ others(hashes)) + others_count(hashes)

\* The possible contents of the set after set.pop(), which removes an arbitrary
\* element.
hashes_pop(hashes) ==
    {hashes \ {x} : x \in hashes \ others(hashes)}
        \cup (IF others_count(hashes) = 0 THEN {}
              ELSE {(hashes \ others(hashes))
                       \cup (IF others_count(hashes) = 1 THEN {}
                             ELSE {<<"others", others_count(hashes) - 1, "">>})})

\* variant: the cache remembers the latest digest only
_is_duplicate_latest_only(text, hashes) ==
    LET content_hash == md5(text)
    IN IF content_hash \in hashes
       THEN {[dup |-> TRUE, hashes |-> hashes]}
       ELSE {[dup |-> FALSE, hashes |-> {content_hash}]}

\* The possible outcomes [dup, hashes] of _is_duplicate.
_is_duplicate(text, hashes) ==
    LET content_hash == md5(text)
        added == hashes \cup {content_hash}
    IN IF content_hash \in hashes
       THEN {[dup |-> TRUE, hashes |-> hashes]}
       ELSE IF hashes_len(added) > hash_cache_size
       THEN {[dup |-> FALSE, hashes |-> popped] : popped \in hashes_pop(added)}
       ELSE {[dup |-> FALSE, hashes |-> added]}

\* variant: a medium severity blocks only above 0.9
triage_should_block_above(severity, confidence) ==
    severity >= SEV_HIGH \/ (severity >= SEV_MEDIUM /\ confidence > 900)

triage_should_block(severity, confidence) ==
    severity >= SEV_HIGH \/ (severity >= SEV_MEDIUM /\ confidence >= 900)

\* The possible outcomes [result, hashes] of TriageService.triage.
triage(content, hashes) ==
    LET text == text_or_empty(content.text_content)
        critical_result == _check_critical(text)
    IN IF Len(critical_result) > 0
       THEN {[result |-> [should_block |-> TRUE, violations |-> critical_result,
                          severity |-> SEV_CRITICAL, confidence |-> 990,
                          matched_patterns |-> <<"critical">>],
              hashes |-> hashes]}
       ELSE LET blocked == _check_blocked_domains(text)
                v2 == IF blocked THEN <<"spam">> ELSE <<>>
                m2 == IF blocked THEN <<"blocked_domain">> ELSE <<>>
                s2 == IF blocked THEN Max(SEV_NONE, SEV_HIGH) ELSE SEV_NONE
                c2 == IF blocked THEN Max(0, 950) ELSE 0
                spam_result == _check_spam(text)
                spam == Len(spam_result) > 0
                v3 == IF spam THEN Append(v2, "spam") ELSE v2
                m3 == IF spam THEN m2 \o spam_result ELSE m2
                s3 == IF spam THEN Max(s2, SEV_MEDIUM) ELSE s2
                c3 == IF spam THEN Max(c2, 800) ELSE c2
                profanity_result == _check_profanity(text)
                prof == Len(profanity_result) > 0
                v4 == IF prof THEN Append(v3, "profanity") ELSE v3
                m4 == IF prof THEN m3 \o profanity_result ELSE m3
                s4 == IF prof THEN Max(s3, SEV_LOW) ELSE s3
                c4 == IF prof THEN Max(c3, 900) ELSE c3
            IN {[result |->
                    [should_block |->
                         triage_should_block(IF d.dup THEN Max(s4, SEV_LOW) ELSE s4,
                                             IF d.dup THEN Max(c4, 850) ELSE c4),
                     violations |-> IF d.dup THEN Append(v4, "spam") ELSE v4,
                     severity |-> IF d.dup THEN Max(s4, SEV_LOW) ELSE s4,
                     confidence |-> IF d.dup THEN Max(c4, 850) ELSE c4,
                     matched_patterns |->
                         IF d.dup THEN Append(m4, "duplicate_content") ELSE m4],
                 hashes |-> d.hashes] : d \in _is_duplicate(text, hashes)}

\* variant: the block decision is never written into the result
create_moderation_result_pending(content, triage_result) ==
    [content_id |-> content.id,
     decision |-> "pending",
     decision_source |-> "tier1_triage",
     severity |-> triage_result.severity,
     violations |-> triage_result.violations,
     combined_risk_score |-> triage_result.confidence * 1000,
     tier_processed |-> "tier1_fast"]

create_moderation_result(content, triage_result) ==
    [content_id |-> content.id,
     decision |-> IF triage_result.should_block THEN "rejected" ELSE "pending",
     decision_source |-> "tier1_triage",
     severity |-> triage_result.severity,
     violations |-> triage_result.violations,
     combined_risk_score |-> triage_result.confidence * 1000,
     tier_processed |-> "tier1_fast"]

(***************************************************************************)
(* services/ml_scoring_service.py                                          *)
(***************************************************************************)
TOXICITY_THRESHOLD == 700
SPAM_THRESHOLD == 800
HATE_SPEECH_THRESHOLD == 600
HARASSMENT_THRESHOLD == 650
VIOLENCE_THRESHOLD == 700
ADULT_CONTENT_THRESHOLD == 750
HUMAN_REVIEW_CONFIDENCE_THRESHOLD == 500

Abs(x) == IF x < 0 THEN 0 - x ELSE x

\* MLScores(): every field at its default
MLScores ==
    [toxicity |-> 0, spam_probability |-> 0, hate_speech |-> 0, harassment |-> 0,
     violence |-> 0, adult_content |-> 0, confidence |-> 0]

\* What the pluggable text scorer may answer for a non-empty text (the reference
\* scorer adds random noise): calm, borderline harassment, violent.
TextDraws ==
    {[MLScores EXCEPT !.confidence = 0],
     [MLScores EXCEPT !.harassment = 640],
     [MLScores EXCEPT !.violence = 900]}

\* What the image analyser may answer: benign, weapons.
ImageDraws ==
    {[explicit_nudity |-> 0, violence |-> 0, weapons_detected |-> FALSE],
     [explicit_nudity |-> 0, violence |-> 0, weapons_detected |-> TRUE]}

\* variant: a missing text is scored with confidence 0.5
_score_text_confident(text, draw) ==
    IF text = "none" \/ text_len(text) = 0
    THEN [MLScores EXCEPT !.confidence = 500]
    ELSE [draw EXCEPT !.confidence = Min(950, 500 + text_len(text))]

_score_text(text, draw) ==
    IF text = "none" \/ text_len(text) = 0
    THEN MLScores
    ELSE [draw EXCEPT !.confidence = Min(950, 500 + text_len(text))]

_analyze_image(has_url, draw) == IF has_url THEN Some(draw) ELSE NoneT

\* [violations, severity]; violations is list(set(...)), kept as the set
_detect_violations(ml_scores, image_analysis) ==
    LET rules ==
          (IF ml_scores.toxicity >= TOXICITY_THRESHOLD
               THEN {<<"harassment", SEV_MEDIUM>>} ELSE {})
          \cup (IF ml_scores.spam_probability >= SPAM_THRESHOLD
               THEN {<<"spam", SEV_LOW>>} ELSE {})
          \cup (IF ml_scores.hate_speech >= HATE_SPEECH_THRESHOLD
               THEN {<<"hate_speech", SEV_HIGH>>} ELSE {})
          \cup (IF ml_scores.harassment >= HARASSMENT_THRESHOLD
               THEN {<<"harassment", SEV_MEDIUM>>} ELSE {})
          \cup (IF ml_scores.violence >= VIOLENCE_THRESHOLD
               THEN {<<"violence", SEV_HIGH>>} ELSE {})
          \cup (IF ml_scores.adult_content >= ADULT_CONTENT_THRESHOLD
               THEN {<<"adult_content", SEV_MEDIUM>>} ELSE {})
          \cup (IF image_analysis # NoneT /\ image_analysis[1].explicit_nudity >= 700
               THEN {<<"adult_content", SEV_HIGH>>} ELSE {})
          \cup (IF image_analysis # NoneT /\ image_analysis[1].violence >= 700
               THEN {<<"violence", SEV_HIGH>>} ELSE {})
          \cup (IF image_analysis # NoneT /\ image_analysis[1].weapons_detected
               THEN {<<"violence", SEV_MEDIUM>>} ELSE {})
    IN [violations |-> {r[1] : r \in rules},
        severity |-> IF \E r \in rules : r[2] = SEV_HIGH THEN SEV_HIGH
                     ELSE IF \E r \in rules : r[2] = SEV_MEDIUM THEN SEV_MEDIUM
                     ELSE IF \E r \in rules : r[2] = SEV_LOW THEN SEV_LOW
                     ELSE SEV_NONE]

_needs_human_review(ml_scores, image_analysis) ==
    \/ ml_scores.confidence < HUMAN_REVIEW_CONFIDENCE_THRESHOLD
    \/ Abs(ml_scores.toxicity - TOXICITY_THRESHOLD) < 100
    \/ Abs(ml_scores.hate_speech - HATE_SPEECH_THRESHOLD) < 100
    \/ Abs(ml_scores.harassment - HARASSMENT_THRESHOLD) < 100

\* draw = [text, image]: the answers of the text scorer and the image analyser
score_content(content, draw) ==
    LET ml_scores == _score_text(content.text_content, draw.text)
        image_analysis == _analyze_image(content.image_url \/ content.media_urls, draw.image)
        detected == _detect_violations(ml_scores, image_analysis)
    IN [ml_scores |-> ml_scores,
        image_analysis |-> image_analysis,
        detected_violations |-> detected.violations,
        recommended_severity |-> detected.severity,
        needs_human_review |-> _needs_human_review(ml_scores, image_analysis)]

(***************************************************************************)
(* models/review.py, services/moderation_service.py                        *)
(***************************************************************************)
HUMAN_REVIEW_THRESHOLD == 600000

\* DEFAULT_SLAS[priority].max_wait_time_minutes
max_wait_time_minutes(priority) ==
    CASE priority = PRIO_LOW -> 1440
      [] priority = PRIO_MEDIUM -> 240
      [] priority = PRIO_HIGH -> 60
      [] priority = PRIO_URGENT -> 15
      [] priority = PRIO_CRITICAL -> 5

\* variant: high severity is queued with high priority only
priority_map_flat(severity) ==
    CASE severity = SEV_CRITICAL -> PRIO_CRITICAL
      [] severity = SEV_HIGH -> PRIO_HIGH
      [] severity = SEV_MEDIUM -> PRIO_HIGH
      [] severity = SEV_LOW -> PRIO_MEDIUM
      [] severity = SEV_NONE -> PRIO_LOW
      [] OTHER -> PRIO_MEDIUM

priority_map(severity) ==
    CASE severity = SEV_CRITICAL -> PRIO_CRITICAL
      [] severity = SEV_HIGH -> PRIO_URGENT
      [] severity = SEV_MEDIUM -> PRIO_HIGH
      [] severity = SEV_LOW -> PRIO_MEDIUM
      [] severity = SEV_NONE -> PRIO_LOW
      [] OTHER -> PRIO_MEDIUM

\* variant: the burst check left out
_can_fast_approve_no_burst(risk_profile, content) ==
    /\ risk_profile.fast_track_approved
    /\ ~(content.image_url \/ content.media_urls)

_can_fast_approve(risk_profile, content) ==
    IF ~risk_profile.fast_track_approved THEN FALSE
    ELSE IF content.image_url \/ content.media_urls THEN FALSE
    ELSE IF risk_profile.is_bursting THEN FALSE
    ELSE TRUE

_create_fast_approval(content) ==
    [content_id |-> content.id, decision |-> "approved",
     decision_source |-> "tier1_triage", severity |-> SEV_NONE, violations |-> <<>>,
     combined_risk_score |-> 0, tier_processed |-> "tier1_fast"]

\* variant: the three signals are summed without their weights
combined_risk_unweighted(triage_result, ml_result, risk_profile) ==
      triage_result.confidence * 1000
    + (1000 - ml_result.ml_scores.confidence) * 1000
    + risk_profile.risk_score * 10

combined_risk(triage_result, ml_result, risk_profile) ==
      triage_result.confidence * 300
    + (1000 - ml_result.ml_scores.confidence) * 500
    + risk_profile.risk_score * 2

\* variant: the combination uses the risk score of an unknown user, not the one read
_combine_scores_default_risk(content, triage_result, ml_result, risk_profile) ==
    {[content_id |-> content.id, decision |-> "pending",
      decision_source |-> "tier2_ml",
      severity |-> Max(triage_result.severity, ml_result.recommended_severity),
      violations |-> all_violations,
      combined_risk_score |->
          combined_risk(triage_result, ml_result, [risk_profile EXCEPT !.risk_score = 50000]),
      tier_processed |-> "tier2_ml"] :
        all_violations \in
            ListsOf(Range(triage_result.violations) \cup ml_result.detected_violations)}

\* The possible results of _combine_scores: list(set(...)) fixes no order.
_combine_scores(content, triage_result, ml_result, risk_profile) ==
    {[content_id |-> content.id, decision |-> "pending",
      decision_source |-> "tier2_ml",
      severity |-> Max(triage_result.severity, ml_result.recommended_severity),
      violations |-> all_violations,
      combined_risk_score |-> combined_risk(triage_result, ml_result, risk_profile),
      tier_processed |-> "tier2_ml"] :
        all_violations \in
            ListsOf(Range(triage_result.violations) \cup ml_result.detected_violations)}

\* variant: the threshold itself escalates
needs_escalation_inclusive(ml_result, combined_result) ==
    ml_result.needs_human_review
        \/ combined_result.combined_risk_score >= HUMAN_REVIEW_THRESHOLD

needs_escalation(ml_result, combined_result) ==
    ml_result.needs_human_review
        \/ combined_result.combined_risk_score > HUMAN_REVIEW_THRESHOLD

\* variant: medium severity is escalated by the final-decision step
_make_final_decision_escalating(result) ==
    IF result.severity = SEV_CRITICAL THEN "rejected"
    ELSE IF result.severity = SEV_MEDIUM THEN "escalated"
    ELSE "approved"

\* variant: a combined risk of exactly 0.7 rejects
_make_final_decision_inclusive(result) ==
    IF result.severity = SEV_CRITICAL THEN "rejected"
    ELSE IF result.severity = SEV_HIGH /\ result.combined_risk_score >= 700000 THEN "rejected"
    ELSE IF result.severity = SEV_MEDIUM THEN "quarantined"
    ELSE "approved"

\* variant: a high severity rejects whatever the combined risk is
_make_final_decision_high_rejects(result) ==
    IF result.severity = SEV_CRITICAL THEN "rejected"
    ELSE IF result.severity = SEV_HIGH THEN "rejected"
    ELSE IF result.severity = SEV_MEDIUM THEN "quarantined"
    ELSE "approved"

_make_final_decision(result) ==
    IF result.severity = SEV_CRITICAL THEN "rejected"
    ELSE IF result.severity = SEV_HIGH /\ result.combined_risk_score > 700000 THEN "rejected"
    ELSE IF result.severity = SEV_MEDIUM THEN "quarantined"
    ELSE IF result.combined_risk_score < 300000 THEN "approved"
    ELSE "approved"

\* sla_deadline is kept as (creation day, minutes after it)
_create_review_task(content, result, ml_result, t) ==
    LET priority == priority_map(result.severity)
    IN [content_id |-> content.id, user_id |-> content.user_id,
        priority |-> priority,
        created_at |-> t,
        sla_minutes |-> max_wait_time_minutes(priority),
        detected_violations |-> result.violations,
        ml_confidence |-> ml_result.ml_scores.confidence]

\* ModerationService._record_violation: one record_violation per list entry
RECURSIVE record_each(_, _, _, _, _)
record_each(S, content, violations, severity, t) ==
    IF violations = <<>> THEN S
    ELSE record_each(
             record_violation(S, content.user_id, Head(violations), severity, content.id, t),
             content, Tail(violations), severity, t)

_record_violation(S, content, result, t) ==
    IF result.violations # <<>>
    THEN record_each(S, content, result.violations, result.severity, t)
    ELSE S

(***************************************************************************)
(* Flow A: the inputs and the actions                                      *)
(***************************************************************************)
\* Content records with identifier id; image_url / media_urls stand for "is set" /
\* "is non-empty".  At least one of text, image, media is present; the sample
\* contents carry an attachment only with the clean text or with no text.
Contents(id) ==
    {c \in [id : {id}, user_id : Users, text_content : Texts,
            image_url : BOOLEAN, media_urls : BOOLEAN] :
        /\ ~(c.image_url /\ c.media_urls)
        /\ (c.text_content = "none" => (c.image_url \/ c.media_urls))
        /\ ((c.image_url \/ c.media_urls) => c.text_content \in {"none", "clean"})}

NoDraw == [text |-> MLScores,
           image |-> [explicit_nudity |-> 0, violence |-> 0, weapons_detected |-> FALSE]]

DrawsFor(content) ==
    {[text |-> td, image |-> id] :
        td \in (IF content.text_content = "none" THEN {NoDraw.text} ELSE TextDraws),
        id \in (IF content.image_url \/ content.media_urls
                THEN ImageDraws ELSE {NoDraw.image})}

\* Reputation states a running service holds for user u1 at the start of the run
\* (u2 is never registered):
\*   "new"      create_user just called
\*   "veteran"  created 210 days ago, never posted
\*   "busy"     created 360 days ago, 2000 approvals today, then 101 update_velocity calls
Profiles == {"new", "veteran", "busy"}
ProfileUser(p) ==
    CASE p = "new" -> User(0)
      [] p = "veteran" -> User(0 - 210)
      [] p = "busy" ->
            [User(0 - 360) EXCEPT
                !.reputation.total_posts = 2101,
                !.reputation.approved_posts = 2000,
                !.reputation.posts_last_hour = 101,
                !.reputation.approval_rate = 1000,
                !.reputation.account_age_factor = 98630,
                !.reputation.overall_score = 89726,
                !.reputation.last_updated = 0]

Service == [users |-> users, reputation_cache |-> reputation_cache]

\* What the result shows to a caller comparing two runs
Summary(out) ==
    [decision |-> out.result.decision, decision_source |-> out.result.decision_source,
     severity |-> out.result.severity, violations |-> Range(out.result.violations)]

\* The latest call, when it was a run on the same content, at the same time, from the
\* same reputation state as read at its start, with the same scorer answers.
SameRun(content, S1, draw, ml_called) ==
    /\ last # NoneT
    /\ last[1].content = content
    /\ last[1].at = now
    /\ last[1].users_profiled = S1.users
    /\ (last[1].ml_calls > 0 /\ ml_called) => last[1].draw = draw

\* What one moderate_content call leaves behind: the pipeline result and what it did.
Finish(S, hashes, out) ==
    /\ users' = S.users
    /\ reputation_cache' = S.reputation_cache
    /\ recent_hashes' = hashes
    /\ calls' = calls + 1
    /\ last' = Some(out)
    /\ UNCHANGED <<now, observed>>

\* The possible outcomes [S, hashes, out] of one moderate_content call on service
\* state S with duplicate cache hashes: the service and the cache afterwards, and
\* the pipeline result with what the call did.
moderate_content_outcomes(S, content, hashes) ==
    LET rp == get_risk_profile(S, content.user_id, now)
        risk_profile == rp.profile
        S1 == rp.S
        base == [content |-> content, at |-> now, users_before |-> S.users,
                 users_profiled |-> S1.users, risk_profile |-> risk_profile,
                 review_task |-> NoneT, triage_calls |-> 0, ml_calls |-> 0,
                 approvals |-> 0, draw |-> NoDraw,
                 rerun_of |-> NoneT, raised |-> NoneT, triage_result |-> NoneT,
                 steps |-> <<"get_risk_profile", "_can_fast_approve">>]
        Rerun(draw, ml_called) ==
            IF SameRun(content, S1, draw, ml_called)
            THEN Some(Summary(last[1])) ELSE NoneT
        Blocked(tr) ==
            LET result == create_moderation_result(content, tr.result)
            IN [S |-> _record_violation(S1, content, result, now), hashes |-> tr.hashes,
                out |-> [result |-> result,
                         routing_path |-> <<"risk_assessment", "tier1_triage",
                                            "tier1_block">>]
                        @@ [base EXCEPT !.triage_calls = 1,
                                        !.triage_result = Some(tr.result),
                                        !.rerun_of = Rerun(NoDraw, FALSE),
                                        !.steps = @ \o <<"triage", "_record_violation">>]]
        Escalated(tr, draw, ml_result, combined_result) ==
            [S |-> S1, hashes |-> tr.hashes,
             out |-> [result |-> [combined_result EXCEPT !.decision = "escalated"],
                      routing_path |-> <<"risk_assessment", "tier1_triage",
                                         "tier2_ml", "human_escalation">>]
                     @@ [base EXCEPT !.triage_calls = 1, !.ml_calls = 1,
                                     !.triage_result = Some(tr.result),
                                     !.draw = draw,
                                     !.rerun_of = Rerun(draw, TRUE),
                                     !.steps = @ \o <<"triage", "score_content",
                                                       "_combine_scores",
                                                       "_create_review_task">>,
                                     !.review_task = Some(_create_review_task(
                                         content, combined_result, ml_result, now))]]
        Decided(tr, draw, combined_result) ==
            LET final_decision == _make_final_decision(combined_result)
                result == [combined_result EXCEPT !.decision = final_decision]
                S2 == IF final_decision = "approved"
                      THEN record_approval(S1, content.user_id, now)
                      ELSE IF final_decision = "rejected"
                      THEN _record_violation(S1, content, result, now)
                      ELSE S1
            IN [S |-> S2, hashes |-> tr.hashes,
                out |-> [result |-> result,
                         routing_path |-> <<"risk_assessment", "tier1_triage",
                                            "tier2_ml", "decision">>]
                        @@ [base EXCEPT !.triage_calls = 1, !.ml_calls = 1,
                                        !.triage_result = Some(tr.result),
                                        !.draw = draw,
                                        !.rerun_of = Rerun(draw, TRUE),
                                        !.steps = @ \o <<"triage", "score_content",
                                                          "_combine_scores",
                                                          "_make_final_decision">>
                                            \o (IF final_decision = "approved"
                                                THEN <<"record_approval">>
                                                ELSE IF final_decision = "rejected"
                                                THEN <<"_record_violation">> ELSE <<>>),
                                        !.approvals =
                                            IF final_decision = "approved" THEN 1 ELSE 0]]
        Scored(tr) ==
            UNION {LET ml_result == score_content(content, draw)
                   IN {IF needs_escalation(ml_result, combined_result)
                       THEN Escalated(tr, draw, ml_result, combined_result)
                       ELSE Decided(tr, draw, combined_result) :
                          combined_result \in
                              _combine_scores(content, tr.result, ml_result, risk_profile)} :
                     draw \in DrawsFor(content)}
    IN IF _can_fast_approve(risk_profile, content)
       THEN {[S |-> record_approval(S1, content.user_id, now), hashes |-> hashes,
              out |-> [result |-> _create_fast_approval(content),
                       routing_path |-> <<"risk_assessment", "fast_approve">>]
                      @@ [base EXCEPT !.approvals = 1,
                                      !.rerun_of = Rerun(NoDraw, FALSE),
                                      !.steps = @ \o <<"record_approval">>]]}
       ELSE UNION {IF tr.result.should_block THEN {Blocked(tr)} ELSE Scored(tr) :
                      tr \in triage(content, hashes)}

moderate_content(content) ==
    /\ calls < MaxCalls
    /\ \E o \in moderate_content_outcomes(Service, content, recent_hashes) :
           Finish(o.S, o.hashes, o.out)

\* A new content arrives (content identifiers are unique).
Submit == \E content \in Contents(calls + 1) : moderate_content(content)

\* The adapter layer retries the latest content.
Resubmit == last # NoneT /\ moderate_content(last[1].content)

\* moderate_content when the scorer behind score_content is unavailable: the await
\* at step 4 raises, nothing catches it, and the call ends with the exception.
\* What get_risk_profile and triage wrote stays.
moderate_content_scorer_down(content) ==
    /\ calls < MaxCalls
    /\ LET rp == get_risk_profile(Service, content.user_id, now)
       IN /\ ~_can_fast_approve(rp.profile, content)
          /\ \E tr \in triage(content, recent_hashes) :
               /\ ~tr.result.should_block
               /\ Finish(rp.S, tr.hashes,
                      [content |-> content, at |-> now, users_before |-> users,
                       users_profiled |-> rp.S.users, risk_profile |-> rp.profile,
                       review_task |-> NoneT, triage_calls |-> 1, ml_calls |-> 1,
                       approvals |-> 0, draw |-> NoDraw, rerun_of |-> NoneT,
                       raised |-> Some("ScorerUnavailable"), result |-> NoneT,
                       triage_result |-> Some(tr.result),
                       steps |-> <<"get_risk_profile", "_can_fast_approve", "triage",
                                   "score_content">>,
                       routing_path |-> <<"risk_assessment", "tier1_triage",
                                          "tier2_ml">>])

\* Content records without a text: text_content is None or the empty string, with
\* an image, with media, or with nothing attached.
TextlessContents(id) ==
    {c \in [id : {id}, user_id : Users, text_content : {"none", ""},
            image_url : BOOLEAN, media_urls : BOOLEAN] :
        ~(c.image_url /\ c.media_urls)}

\* A new content without text arrives.
SubmitTextless == \E content \in TextlessContents(calls + 1) : moderate_content(content)

\* A new content arrives while the scorer is unavailable.
SubmitScorerDown == \E content \in Contents(calls + 1) : moderate_content_scorer_down(content)

create_user(user_id) ==
    /\ user_id \notin DOMAIN users
    /\ users' = (user_id :> User(now)) @@ users
    /\ UNCHANGED <<now, reputation_cache, recent_hashes, calls, last, observed>>

\* Time passes (30 days at a time).
Tick ==
    /\ now + 30 <= MaxDay
    /\ now' = now + 30
    /\ UNCHANGED <<users, reputation_cache, recent_hashes, calls, last, observed>>

(***************************************************************************)
(* Direct calls on ReputationService and on ReputationScore                *)
(***************************************************************************)
\* What one direct call leaves behind.
Observe(S, rec) ==
    /\ users' = S.users
    /\ reputation_cache' = S.reputation_cache
    /\ calls' = calls + 1
    /\ observed' = Some(rec @@ [seq |-> calls + 1, at |-> now, users_before |-> users,
                                cache_before |-> reputation_cache])
    /\ UNCHANGED <<now, recent_hashes, last>>

\* (violation_type, severity) pairs handed to record_violation
ViolationInputs ==
    {<<"spam", SEV_HIGH>>, <<"threat", SEV_CRITICAL>>, <<"csam", SEV_CRITICAL>>}

RecordViolation ==
    /\ calls < MaxCalls
    /\ \E user_id \in Users, v \in ViolationInputs :
           Observe(record_violation(Service, user_id, v[1], v[2], calls + 1, now),
                   [op |-> "record_violation", user_id |-> user_id,
                    violation_type |-> v[1], severity |-> v[2], returned |-> NoneT])

RecordApproval ==
    /\ calls < MaxCalls
    /\ \E user_id \in Users :
           Observe(record_approval(Service, user_id, now),
                   [op |-> "record_approval", user_id |-> user_id, returned |-> NoneT])

GetRiskProfile ==
    /\ calls < MaxCalls
    /\ \E user_id \in Users :
           LET rp == get_risk_profile(Service, user_id, now)
           IN Observe(rp.S, [op |-> "get_risk_profile", user_id |-> user_id,
                             returned |-> Some(rp.profile)])

UpdateVelocity ==
    /\ calls < MaxCalls
    /\ \E user_id \in Users :
           Observe(update_velocity(Service, user_id),
                   [op |-> "update_velocity", user_id |-> user_id, returned |-> NoneT])

\* ModerationService._make_final_decision and _create_review_task called directly on
\* a combined result with the given severity and combined risk
Severities == SEV_NONE .. SEV_CRITICAL
RiskGrid ==
    {0, 100000, 200000, 299999, 300000, 300001, 400000, 500000, 600000, 600001,
     699999, 700000, 700001, 800000, 900000, 1000000}

MakeFinalDecision ==
    /\ calls < MaxCalls
    /\ \E severity \in Severities, combined \in RiskGrid :
           LET result == [severity |-> severity, combined_risk_score |-> combined]
           IN Observe(Service, [op |-> "_make_final_decision", result |-> result,
                                returned |-> Some(_make_final_decision(result))])

CreateReviewTask ==
    /\ calls < MaxCalls
    /\ \E severity \in Severities, combined \in {600001, 1000000}, confidence \in {500, 950} :
       \E content \in {c \in Contents(calls + 1) : c.text_content = "clean"} :
           LET result == [severity |-> severity, combined_risk_score |-> combined,
                          violations |-> <<>>]
               ml_result == [ml_scores |-> [confidence |-> confidence]]
           IN Observe(Service, [op |-> "_create_review_task", result |-> result,
                                returned |-> Some(_create_review_task(content, result,
                                                                      ml_result, now))])

\* TriageService.triage called directly on a text-only content
TriageTexts == Texts \cup {"spamprof"}
TriageContents(id) ==
    [id : {id}, user_id : Users, text_content : TriageTexts,
     image_url : {FALSE}, media_urls : {FALSE}]

\* observed.earlier lists the triage calls made before this one: the text, and
\* whether its digest would take the cache over its capacity.
Triage ==
    /\ calls < MaxTriage
    /\ \E content \in TriageContents(calls + 1) :
       \E tr \in triage(content, recent_hashes) :
           /\ recent_hashes' = tr.hashes
           /\ calls' = calls + 1
           /\ observed' = Some([op |-> "triage", content |-> content, seq |-> calls + 1,
                                at |-> now, hashes_before |-> recent_hashes,
                                returned |-> Some(tr.result),
                                exceeded |-> hashes_len(recent_hashes \cup
                                                 {md5(text_or_empty(content.text_content))})
                                               > hash_cache_size,
                                earlier |->
                                    IF observed = NoneT THEN <<>>
                                    ELSE Append(observed[1].earlier,
                                             [text |-> observed[1].content.text_content,
                                              exceeded |-> observed[1].exceeded])])
           /\ UNCHANGED <<now, users, reputation_cache, last>>

\* ReputationScore.calculate_risk_level on a record built with the given
\* overall_score and violations_last_30_days
Scores ==
    {0, 5000, 9999, 10000, 10001, 29999, 30000, 30001, 49999, 50000, 50001,
     79999, 80000, 80001, 100000}
Counts == 0 .. 6

CalculateRiskLevel ==
    /\ calls < MaxCalls
    /\ \E s \in Scores, v \in Counts :
           LET reputation == [ReputationScore(now) EXCEPT
                                  !.overall_score = s, !.violations_last_30_days = v]
           IN Observe(Service, [op |-> "calculate_risk_level", reputation |-> reputation,
                                returned |-> Some(calculate_risk_level(reputation))])

\* Time passes (30 days at a time) over the months a violation takes to fade.
Elapse ==
    /\ now + 30 <= MaxAge
    /\ now' = now + 30
    /\ UNCHANGED <<users, reputation_cache, recent_hashes, calls, last, observed>>

\* A user of the given profile after k high-severity spam violations recorded at time 0
RECURSIVE Seeded(_, _)
Seeded(p, k) ==
    IF k = 0 THEN [users |-> ("u1" :> ProfileUser(p)), reputation_cache |-> {}]
    ELSE record_violation(Seeded(p, k - 1), "u1", "spam", SEV_HIGH, 0 - k, 0)

(***************************************************************************)
(* streaming/flink_processor.py: window assigners                          *)
(***************************************************************************)
\* TumblingWindowAssigner(window_size_seconds).assign_windows, on a timestamp:
\* timestamp.replace(second=(second // size) * size, microsecond=0)
tumbling_assign_windows(window_size_seconds, timestamp) ==
    LET second == (timestamp \div 1000) % 60
        window_start == timestamp - (timestamp % 60000)
                        + ((second \div window_size_seconds) * window_size_seconds) * 1000
    IN <<[start |-> window_start, end |-> window_start + window_size_seconds * 1000]>>

RECURSIVE sliding_loop(_, _, _, _)
sliding_loop(window_start, timestamp, window_size, slide) ==
    IF ~(window_start <= timestamp) THEN <<>>
    ELSE (IF window_start <= timestamp /\ timestamp < window_start + window_size
          THEN <<[start |-> window_start, end |-> window_start + window_size]>>
          ELSE <<>>)
         \o sliding_loop(window_start + slide, timestamp, window_size, slide)

\* SlidingWindowAssigner(window_size_seconds, slide_seconds).assign_windows
sliding_assign_windows(window_size_seconds, slide_seconds, timestamp) ==
    sliding_loop(timestamp - window_size_seconds * 1000 + slide_seconds * 1000,
                 timestamp, window_size_seconds * 1000, slide_seconds * 1000)

\* SessionWindowAssigner(gap_seconds): the gap and the sessions dict, key -> (start, end)
SessionWindowAssigner(gap_seconds) ==
    [kind |-> "session", gap |-> gap_seconds * 1000, sessions |-> <<>>]

\* new_end = timestamp, without the max
session_assign_windows_shrinking(A, key, timestamp) ==
    LET fresh == [start |-> timestamp, end |-> timestamp]
        stored == IF key \in DOMAIN A.sessions
                     /\ timestamp <= A.sessions[key].end + A.gap
                  THEN [start |-> A.sessions[key].start, end |-> timestamp]
                  ELSE fresh
    IN [assigner |-> [A EXCEPT !.sessions = (key :> stored) @@ A.sessions],
        returned |-> <<stored>>]

\* SessionWindowAssigner.assign_windows: the assigner afterwards and the list returned
session_assign_windows(A, key, timestamp) ==
    LET fresh == [start |-> timestamp, end |-> timestamp]
        stored == IF key \in DOMAIN A.sessions
                  THEN LET session_start == A.sessions[key].start
                           session_end == A.sessions[key].end
                       IN IF timestamp <= session_end + A.gap
                          THEN [start |-> session_start,
                                end |-> Max(session_end, timestamp)]
                          ELSE fresh
                  ELSE fresh
    IN [assigner |-> [A EXCEPT !.sessions = (key :> stored) @@ A.sessions],
        returned |-> <<stored>>]

\* TumblingWindowAssigner(window_size_seconds), SlidingWindowAssigner(size, slide)
TumblingWindowAssigner(window_size_seconds) ==
    [kind |-> "tumbling", window_size_seconds |-> window_size_seconds]
SlidingWindowAssigner(window_size_seconds, slide_seconds) ==
    [kind |-> "sliding", window_size_seconds |-> window_size_seconds,
     slide_seconds |-> slide_seconds]

(***************************************************************************)
(* streaming/flink_processor.py: StateBackend                              *)
(*                                                                         *)
(* A backend B is [heap, keyed_state, operator_state, checkpoints].  The   *)
(* inner dicts live in heap and are named by their position in it, so that *)
(* two dicts holding the same inner dict object share its later changes.   *)
(* A dict is a function; state names are tuples: <<"user_state">>,         *)
(* <<"count_1m", start>> for f"count_1m:{start.isoformat()}".              *)
(***************************************************************************)
EmptyDict == <<>>
dict_get(d, name) == IF name \in DOMAIN d THEN Some(d[name]) ELSE NoneT
dict_set(d, name, value) == (name :> value) @@ d
dict_del(d, name) == [n \in DOMAIN d \ {name} |-> d[n]]

StateBackend ==
    [heap |-> <<>>, keyed_state |-> EmptyDict, operator_state |-> EmptyDict,
     checkpoints |-> <<>>]

\* self.keyed_state[key] on a defaultdict(dict): a missing key gets a new inner dict
keyed_entry(B, key) ==
    IF key \in DOMAIN B.keyed_state THEN B
    ELSE [B EXCEPT !.heap = Append(@, EmptyDict),
                   !.keyed_state = dict_set(@, key, Len(B.heap) + 1)]

get_keyed_state(B, key, state_name) ==
    LET B1 == keyed_entry(B, key)
    IN [B |-> B1, value |-> dict_get(B1.heap[B1.keyed_state[key]], state_name)]

update_keyed_state(B, key, state_name, value) ==
    LET B1 == keyed_entry(B, key)
    IN [B1 EXCEPT !.heap[B1.keyed_state[key]] = dict_set(@, state_name, value)]

clear_keyed_state(B, key, state_name) ==
    LET B1 == keyed_entry(B, key)
    IN IF state_name \in DOMAIN B1.heap[B1.keyed_state[key]]
       THEN [B1 EXCEPT !.heap[B1.keyed_state[key]] = dict_del(@, state_name)]
       ELSE B1

\* dict(self.keyed_state) copies the outer dict only: the checkpoint holds the same
\* inner dict objects as the live state.  The id is the position in the list, from 0.
checkpoint(B) ==
    [B EXCEPT !.checkpoints =
        Append(@, [id |-> Len(B.checkpoints),
                   keyed_state |-> B.keyed_state,
                   operator_state |-> B.operator_state])]

\* defaultdict(dict, checkpoint['keyed_state']) copies the outer dict again
restore(B, checkpoint_id) ==
    IF checkpoint_id < Len(B.checkpoints)
    THEN [B EXCEPT !.keyed_state = B.checkpoints[checkpoint_id + 1].keyed_state,
                   !.operator_state = B.checkpoints[checkpoint_id + 1].operator_state]
    ELSE B

\* The contents a keyed-state dict denotes: every key with the contents of its inner dict
Contents_of(B, keyed) == [k \in DOMAIN keyed |-> B.heap[keyed[k]]]

(***************************************************************************)
(* Chat messages                                                           *)
(***************************************************************************)
\* The message texts, by name:
\*   "none"   text = None (ChatMessage.text is Optional and defaults to None)
\*   "hi"     "hi"
\*   "HI"     "HI"
\*   "toxic"  "i hate you stupid idiot"
ChatTexts == {"none", "hi", "HI", "toxic"}
chat_len(text) == CASE text = "hi" -> 2 [] text = "HI" -> 2 [] text = "toxic" -> 23
\* text.count('http')
http_count(text) == CASE text \in {"hi", "HI", "toxic"} -> 0
\* sum(1 for c in text if c.isupper())
upper_count(text) == CASE text = "HI" -> 2 [] text \in {"hi", "toxic"} -> 0
\* text.lower()
lower(text) == CASE text = "HI" -> "hi" [] text \in {"hi", "toxic"} -> text
\* sum(1 for w in ['hate', 'stupid', 'idiot', 'kill'] if w in text_lower)
toxic_matches(text_lower) == CASE text_lower = "toxic" -> 3 [] text_lower = "hi" -> 0
\* hashlib.md5(text.lower().encode()).hexdigest()[:16]
text_hash(text) == <<"md5_16", lower(text)>>

(***************************************************************************)
(* streaming/flink_processor.py: ModerationFlinkProcessor                  *)
(***************************************************************************)
allowed_lateness == 10000
\* datetime.utcnow() when the processor was constructed
StartTime == 20000

\* a datetime object, and the str that isoformat() makes of it
datetime(t) == [type |-> "datetime", t |-> t]
isoformat(d) == [type |-> "str", iso |-> d.t]

\* UserMessageState(): the dataclass defaults
UserMessageState ==
    [message_count |-> 0, violation_count |-> 0, last_message_time |-> NoneT,
     recent_hashes |-> <<>>, velocity |-> 0]

\* stored: the state was read back, so its recent_hashes is the stored list object
_get_user_state(B, user_key) ==
    LET g == get_keyed_state(B, user_key, <<"user_state">>)
    IN IF g.value # NoneT
       THEN [B |-> g.B, state |-> g.value[1], stored |-> TRUE]
       ELSE [B |-> g.B, state |-> UserMessageState, stored |-> FALSE]

LastN(s, n) == IF Len(s) <= n THEN s ELSE SubSeq(s, Len(s) - n + 1, Len(s))

_update_user_state(B, user_key, state) ==
    update_keyed_state(B, user_key, <<"user_state">>,
        [message_count |-> state.message_count,
         violation_count |-> state.violation_count,
         last_message_time |->
             IF state.last_message_time # NoneT
             THEN Some(isoformat(state.last_message_time[1])) ELSE NoneT,
         recent_hashes |-> LastN(state.recent_hashes, 100),
         velocity |-> state.velocity])

window_key(window_name, window_start) ==
    <<window_name, isoformat(datetime(window_start))>>

RECURSIVE window_count_loop(_, _, _, _, _)
window_count_loop(B, key, window_name, windows, total_count) ==
    IF windows = <<>> THEN [B |-> B, total_count |-> total_count]
    ELSE LET name == window_key(window_name, Head(windows).start)
             g == get_keyed_state(B, key, name)
             current == IF g.value # NoneT THEN g.value[1] ELSE 0
             new_count == current + 1
         IN window_count_loop(update_keyed_state(g.B, key, name, new_count),
                              key, window_name, Tail(windows),
                              Max(total_count, new_count))

_update_window_count(B, key, window_name, windows) ==
    window_count_loop(B, key, window_name, windows, 0)

\* text.count on None raises AttributeError
_compute_spam_score(text, state) ==
    IF text = "none" THEN [raised |-> Some("AttributeError"), value |-> 0]
    ELSE [raised |-> NoneT,
          value |-> Min(1000,
              (IF http_count(text) > 2 THEN 400 ELSE 0)
              + (IF chat_len(text) > 0 /\ upper_count(text) * 10 > 7 * chat_len(text)
                 THEN 300 ELSE 0)
              + (IF state.velocity > 1000 THEN 300 ELSE 0))]

_compute_toxicity_score(text) == Min(1000, toxic_matches(lower(text)) * 300)

\* appends to the list object the state holds
_check_duplicate(text, state) ==
    [is_dup |-> text_hash(text) \in Range(state.recent_hashes),
     state |-> [state EXCEPT !.recent_hashes = Append(@, text_hash(text))]]

\* datetime - str raises TypeError
_detect_burst(state, current_time) ==
    IF state.last_message_time = NoneT THEN [raised |-> NoneT, value |-> FALSE]
    ELSE IF state.last_message_time[1].type = "str"
    THEN [raised |-> Some("TypeError"), value |-> FALSE]
    ELSE [raised |-> NoneT,
          value |-> (current_time - state.last_message_time[1].t) < 500
                        /\ state.velocity > 2000]

\* velocity in 1/1000 messages per second; 1.0 / time_diff is rounded down to that unit
_compute_velocity(state, current_time) ==
    IF state.last_message_time = NoneT THEN 0
    ELSE LET time_diff == current_time - state.last_message_time[1].t
         IN IF time_diff <= 0 THEN state.velocity
            ELSE (3 * (1000000 \div time_diff) + 7 * state.velocity) \div 10

_make_decision(message, spam_score, toxicity_score, is_duplicate, is_rate_limited, is_bursting, msg_count_1m, msg_count_5m) ==
    LET spam == spam_score > 700
        toxic == toxicity_score > 800
        sev1 == IF spam THEN SEV_MEDIUM ELSE SEV_NONE
        sev2 == IF toxic THEN Max(sev1, SEV_HIGH) ELSE sev1
        sev3 == IF is_duplicate THEN Max(sev2, SEV_LOW) ELSE sev2
        should_block == spam \/ toxic \/ is_rate_limited
    IN [user_id |-> message.user_id,
        decision |-> IF should_block THEN "rejected" ELSE "approved",
        severity |-> sev3,
        violations |-> (IF spam THEN <<"spam">> ELSE <<>>)
                       \o (IF toxic THEN <<"harassment">> ELSE <<>>)
                       \o (IF is_duplicate THEN <<"spam">> ELSE <<>>),
        spam_score |-> spam_score,
        toxicity_score |-> toxicity_score,
        user_message_count_1m |-> msg_count_1m,
        user_message_count_5m |-> msg_count_5m,
        is_rate_limited |-> is_rate_limited,
        is_repeat_message |-> is_duplicate,
        is_burst_detected |-> is_bursting]

\* A processor P is [state, current_watermark, metrics].  The result is the processor
\* after the call and the outcome: the decision returned, or the exception raised
\* with everything written before it left in place.
process_message(P, message) ==
    LET counted == [P.metrics EXCEPT !.records_processed = @ + 1]
        user_key == message.user_id
        metrics2 == IF message.timestamp < P.current_watermark - allowed_lateness
                    THEN [counted EXCEPT !.late_records = @ + 1] ELSE counted
        watermark == Max(P.current_watermark, message.timestamp)
        us == _get_user_state(P.state, user_key)
        windows_1m == tumbling_assign_windows(60, message.timestamp)
        windows_5m == sliding_assign_windows(300, 60, message.timestamp)
        c1 == _update_window_count(us.B, user_key, "count_1m", windows_1m)
        c5 == _update_window_count(c1.B, user_key, "count_5m", windows_5m)
        spam == _compute_spam_score(message.text, us.state)
        toxicity_score == _compute_toxicity_score(message.text)
        dup == _check_duplicate(message.text, us.state)
        B_dup == IF us.stored
                 THEN [c5.B EXCEPT
                          !.heap[c5.B.keyed_state[user_key]][<<"user_state">>].recent_hashes
                              = dup.state.recent_hashes]
                 ELSE c5.B
        is_rate_limited == c1.total_count > 10
        burst == _detect_burst(dup.state, message.timestamp)
        counted_state == [dup.state EXCEPT
                             !.message_count = @ + 1,
                             !.last_message_time = Some(datetime(message.timestamp))]
        user_state == [counted_state EXCEPT
                          !.velocity = _compute_velocity(counted_state, message.timestamp)]
        decision == _make_decision(message, spam.value, toxicity_score, dup.is_dup,
                                   is_rate_limited, burst.value,
                                   c1.total_count, c5.total_count)
        Raised(B, exception) ==
            [P |-> [state |-> B, current_watermark |-> watermark, metrics |-> metrics2],
             outcome |-> [raised |-> exception, decision |-> NoneT]]
    IN IF spam.raised # NoneT THEN Raised(c5.B, spam.raised)
       ELSE IF burst.raised # NoneT THEN Raised(B_dup, burst.raised)
       ELSE [P |-> [state |-> _update_user_state(B_dup, user_key, user_state),
                    current_watermark |-> watermark,
                    metrics |-> [metrics2 EXCEPT !.decisions_made = @ + 1]],
             outcome |-> [raised |-> NoneT, decision |-> Some(decision)]]

\* ModerationFlinkProcessor.create_checkpoint
create_checkpoint(P) ==
    [P EXCEPT !.state = checkpoint(P.state), !.metrics.checkpoints_created = @ + 1]

(***************************************************************************)
(* Flow B: the inputs and the actions                                      *)
(***************************************************************************)
MaxMessages == 2
MaxCheckpoints == 2
MaxRestores == 2

ChatUsers == {"p1", "p2"}
\* 00:00:00, 00:00:59 and 00:01:01 of the processor's first hour
Timestamps == {0, 59000, 61000}
\* p1 sends every text, p2 only "hi"
Messages ==
    {m \in [user_id : ChatUsers, text : ChatTexts, timestamp : Timestamps] :
        m.user_id = "p2" => m.text = "hi"}

\* the raw state-backend interface is exercised on these
Keys == {"k1", "k2"}
StateNames == {<<"a">>}
StateValues == {1, 2}

Backend ==
    [heap |-> heap, keyed_state |-> keyed_state, operator_state |-> operator_state,
     checkpoints |-> checkpoints]
Processor ==
    [state |-> Backend, current_watermark |-> current_watermark, metrics |-> metrics]

SetBackend(B) ==
    /\ heap' = B.heap
    /\ keyed_state' = B.keyed_state
    /\ operator_state' = B.operator_state
    /\ checkpoints' = B.checkpoints

SetProcessor(P) ==
    /\ SetBackend(P.state)
    /\ current_watermark' = P.current_watermark
    /\ metrics' = P.metrics

Replaying == replay # NoneT /\ Len(replay[1].done) < Len(replay[1].expected)

\* A message arrives and is processed.
ProcessMessage ==
    /\ metrics.records_processed < MaxMessages
    /\ ~Replaying
    /\ \E message \in Messages :
         LET r == process_message(Processor, message)
             call == [message |-> message, outcome |-> r.outcome]
         IN /\ SetProcessor(r.P)
            /\ handled' = Append(handled, call)
            /\ first_run' = Append(first_run, call)
    /\ installed' = NoneT
    /\ UNCHANGED <<snapshots, restore_calls, epoch, replay>>
    /\ UNCHANGED <<varsA, varsW, varsR, varsT>>

\* After a restore of the checkpoint the run started from, the messages processed
\* since then are processed again, in the same order.
ReplayMessage ==
    /\ Replaying
    /\ LET message == replay[1].expected[Len(replay[1].done) + 1].message
           r == process_message(Processor, message)
           call == [message |-> message, outcome |-> r.outcome]
       IN /\ SetProcessor(r.P)
          /\ handled' = Append(handled, call)
          /\ first_run' = Append(first_run, call)
          /\ replay' = Some([replay[1] EXCEPT !.done = Append(@, r.outcome)])
    /\ installed' = NoneT
    /\ UNCHANGED <<snapshots, restore_calls, epoch>>
    /\ UNCHANGED <<varsA, varsW, varsR, varsT>>

TakenCheckpoint ==
    /\ snapshots' = Append(snapshots,
           [keyed_state |-> Contents_of(Backend, keyed_state),
            operator_state |-> operator_state])
    /\ installed' = Some(Len(checkpoints))
    /\ epoch' = Some(Len(checkpoints))
    /\ first_run' = <<>>
    /\ replay' = NoneT
    /\ UNCHANGED <<handled, restore_calls>>
    /\ UNCHANGED <<varsA, varsW, varsR, varsT>>

\* ModerationFlinkProcessor.create_checkpoint()
CreateCheckpoint ==
    /\ Len(checkpoints) < MaxCheckpoints
    /\ SetProcessor(create_checkpoint(Processor))
    /\ TakenCheckpoint

\* StateBackend.checkpoint()
Checkpoint ==
    /\ Len(checkpoints) < MaxCheckpoints
    /\ SetBackend(checkpoint(Backend))
    /\ UNCHANGED <<current_watermark, metrics>>
    /\ TakenCheckpoint

\* StateBackend.restore(checkpoint_id); an id that was never returned changes nothing
Restore ==
    /\ restore_calls < MaxRestores
    /\ \E checkpoint_id \in 0..Len(checkpoints) :
         /\ SetBackend(restore(Backend, checkpoint_id))
         /\ IF checkpoint_id < Len(checkpoints)
            THEN /\ installed' = Some(checkpoint_id)
                 /\ epoch' = Some(checkpoint_id)
                 /\ first_run' = <<>>
                 /\ replay' = IF epoch = Some(checkpoint_id)
                              THEN Some([checkpoint |-> checkpoint_id,
                                         expected |-> first_run, done |-> <<>>])
                              ELSE NoneT
            ELSE UNCHANGED <<installed, epoch, first_run, replay>>
    /\ restore_calls' = restore_calls + 1
    /\ UNCHANGED <<current_watermark, metrics, handled, snapshots>>
    /\ UNCHANGED <<varsA, varsW, varsR, varsT>>

Touched ==
    /\ installed' = NoneT
    /\ UNCHANGED <<current_watermark, metrics, handled, snapshots, restore_calls,
                   epoch, first_run, replay>>
    /\ UNCHANGED <<varsA, varsW, varsR, varsT>>

\* StateBackend.get_keyed_state(key, state_name)
GetKeyedState ==
    /\ \E key \in Keys, state_name \in StateNames :
         SetBackend(get_keyed_state(Backend, key, state_name).B)
    /\ Touched

\* StateBackend.update_keyed_state(key, state_name, value)
UpdateKeyedState ==
    /\ \E key \in Keys, state_name \in StateNames, value \in StateValues :
         SetBackend(update_keyed_state(Backend, key, state_name, value))
    /\ Touched

\* StateBackend.clear_keyed_state(key, state_name)
ClearKeyedState ==
    /\ \E key \in Keys, state_name \in StateNames :
         SetBackend(clear_keyed_state(Backend, key, state_name))
    /\ Touched

\* A burst: one user sends BurstSize identical messages, BurstGap ms apart
\* (14 gaps of 50 ms: 700 ms from the first to the last).
BurstSize == 15
BurstGap == 50

BurstMessage ==
    /\ Len(handled) < BurstSize
    /\ \E first \in Messages :
         /\ first.text # "none"
         /\ handled # <<>> => first = handled[1].message
         /\ LET message == IF handled = <<>> THEN first
                           ELSE [first EXCEPT !.timestamp =
                                    handled[Len(handled)].message.timestamp + BurstGap]
                r == process_message(Processor, message)
                call == [message |-> message, outcome |-> r.outcome]
            IN /\ SetProcessor(r.P)
               /\ handled' = Append(handled, call)
               /\ first_run' = Append(first_run, call)
    /\ installed' = NoneT
    /\ UNCHANGED <<snapshots, restore_calls, epoch, replay>>
    /\ UNCHANGED <<varsA, varsW, varsR, varsT>>

(***************************************************************************)
(* services/realtime_service.py: RealTimeService                           *)
(***************************************************************************)
\* The message texts handed to RealTimeService, by name:
\*   "none"        text = None
\*   "hi", "HI"    two spellings of one message
\*   "yo"          another message
\*   "free robux"  a blocklisted phrase
\*   "rage"        "i hate you stupid idiot die"
LiveTexts == {"none", "hi", "HI", "yo", "free robux", "rage"}
live_len(text) ==
    CASE text \in {"hi", "HI", "yo"} -> 2 [] text = "free robux" -> 10
      [] text = "rage" -> 27
\* the longest run of one character
max_repeat(text) == CASE text = "free robux" -> 2 [] OTHER -> 1
\* sum(1 for c in text if c.isupper())
caps_count(text) == CASE text = "HI" -> 2 [] OTHER -> 0
\* text.count('http://') + text.count('https://')
link_count(text) == 0
\* text.lower().strip()
normalized(text) == CASE text = "HI" -> "hi" [] OTHER -> text
\* sum(1 for word in ['idiot', 'stupid', 'hate', 'kill', 'die'] if word in text_lower)
toxic_words(text_lower) == CASE text_lower = "rage" -> 4 [] OTHER -> 0
blocked_phrases == {"free robux"}

messages_per_minute == 10
duplicate_threshold == 3
WINDOW_5M == 300

\* UserWindow(user_id)
UserWindow(user_id) ==
    [user_id |-> user_id, messages |-> <<>>, message_hashes |-> {},
     violation_count |-> 0, last_message_time |-> NoneT]

\* UserWindow.add_message
add_message(window, timestamp, text, hash_val) ==
    [window EXCEPT !.messages = Append(@, <<timestamp, text>>),
                   !.message_hashes = @ \cup {hash_val},
                   !.last_message_time = Some(timestamp)]

\* UserWindow.cleanup_old
cleanup_old(window, window_size_seconds, clock) ==
    LET cutoff == clock - window_size_seconds * 1000
        recent(m) == m[1] > cutoff
    IN [window EXCEPT !.messages = SelectSeq(@, recent)]

_get_or_create_window(windows, user_id) ==
    IF user_id \notin DOMAIN windows THEN (user_id :> UserWindow(user_id)) @@ windows
    ELSE windows

\* hashlib.md5(text.lower().strip().encode()).hexdigest()[:16]
_hash_message(text) == <<"md5_16", normalized(text)>>

\* in thousandths
_check_spam_patterns(text) ==
    Min(1000,
        (IF max_repeat(text) >= 5 THEN 300 ELSE 0)
        + (IF live_len(text) > 0 /\ caps_count(text) * 10 >= 7 * live_len(text)
           THEN 300 ELSE 0)
        + (IF link_count(text) >= 3 THEN 400 ELSE 0))

_check_toxicity_fast(text) == Min(1000, toxic_words(normalized(text)) * 250)

\* len([m for t, m in messages if t > utcnow - 60 s])
count_1m(window, clock) ==
    LET recent(m) == m[1] > clock - 60000
    IN Len(SelectSeq(window.messages, recent))

_check_rate_limit(window, clock) == count_1m(window, clock) >= messages_per_minute

\* more than 2 messages per second over the last ten messages
realtime_detect_burst(window) ==
    IF Len(window.messages) < 5 THEN FALSE
    ELSE LET recent == LastN(window.messages, 10)
             time_span == recent[Len(recent)][1] - recent[1][1]
         IN Len(recent) >= 2 /\ time_span > 0 /\ Len(recent) * 1000 > 2 * time_span

_check_blocklist(text) == normalized(text) \in blocked_phrases

\* the latency is measured wall-clock time; a call takes no time here
_update_metrics(counters, blocked) ==
    [counters EXCEPT !.messages_processed = @ + 1,
                    !.messages_blocked = IF blocked THEN @ + 1 ELSE @]

_cleanup_windows(windows, clock) ==
    [u \in DOMAIN windows |-> cleanup_old(windows[u], WINDOW_5M, clock)]

\* RealTimeService.process_message: the service afterwards and the outcome
realtime_process_message(R, message, clock) ==
    LET windows == _get_or_create_window(R.user_windows, message.user_id)
        created == [R EXCEPT !.user_windows = windows]
    IN IF message.text = "none"
       THEN \* _hash_message: None has no lower()
            [R |-> created,
             outcome |-> [raised |-> Some("AttributeError"), decision |-> NoneT]]
       ELSE
       LET before == windows[message.user_id]
           message_hash == _hash_message(message.text)
           spam_score == _check_spam_patterns(message.text)
           toxicity_score == _check_toxicity_fast(message.text)
           is_duplicate == message_hash \in before.message_hashes
           is_rate_limited == _check_rate_limit(before, clock)
           user_window == add_message(before, message.timestamp, message.text,
                                      message_hash)
           msg_count_1m == count_1m(user_window, clock)
           msg_count_5m == Len(user_window.messages)
           is_bursting == realtime_detect_burst(user_window)
           spam == spam_score > 800
           toxic == toxicity_score > 850
           repeated == is_duplicate
                       /\ Cardinality(user_window.message_hashes) > duplicate_threshold
           listed == _check_blocklist(message.text)
           violations == (IF spam THEN <<"spam">> ELSE <<>>)
                         \o (IF toxic THEN <<"harassment">> ELSE <<>>)
                         \o (IF repeated THEN <<"spam">> ELSE <<>>)
                         \o (IF listed THEN <<"spam">> ELSE <<>>)
           severity == Max(IF spam THEN SEV_MEDIUM ELSE SEV_NONE,
                       Max(IF toxic THEN SEV_HIGH ELSE SEV_NONE,
                       Max(IF repeated THEN SEV_LOW ELSE SEV_NONE,
                       Max(IF is_bursting THEN SEV_LOW ELSE SEV_NONE,
                           IF listed THEN SEV_MEDIUM ELSE SEV_NONE))))
           should_block == spam \/ toxic \/ repeated \/ is_rate_limited \/ listed
           counted == IF is_rate_limited
                      THEN [R.metrics EXCEPT !.rate_limited = @ + 1] ELSE R.metrics
           updated == _update_metrics(counted, should_block)
           added == (message.user_id :> user_window) @@ windows
           swept == IF updated.messages_processed % 100 = 0
                    THEN _cleanup_windows(added, clock) ELSE added
       IN [R |-> [user_windows |-> swept, metrics |-> updated],
           outcome |->
               [raised |-> NoneT,
                decision |-> Some(
                    [user_id |-> message.user_id,
                     decision |-> IF should_block THEN "rejected" ELSE "approved",
                     violations |-> violations,
                     severity |-> severity,
                     spam_score |-> spam_score,
                     toxicity_score |-> toxicity_score,
                     user_message_count_1m |-> msg_count_1m,
                     user_message_count_5m |-> msg_count_5m,
                     is_rate_limited |-> is_rate_limited,
                     is_repeat_message |-> is_duplicate,
                     is_burst_detected |-> is_bursting])]]

MaxSends == 5
\* the moments at which messages are sent, in milliseconds
SendTimes == {0, 1000}
\* p1 sends every text, p2 only "hi"; a message is stamped when it is created
LiveMessages(clock) ==
    {m \in [user_id : ChatUsers, text : LiveTexts, timestamp : {clock}] :
        m.user_id = "p2" => m.text = "hi"}

RealTime == [user_windows |-> user_windows, metrics |-> rt_metrics]

\* await service.process_message(message)
RealTimeProcessMessage ==
    /\ Len(answered) < MaxSends
    /\ \E message \in LiveMessages(utcnow) :
           LET r == realtime_process_message(RealTime, message, utcnow)
           IN /\ user_windows' = r.R.user_windows
              /\ rt_metrics' = r.R.metrics
              /\ answered' = Append(answered, [message |-> message, outcome |-> r.outcome])
    /\ UNCHANGED <<utcnow, varsA, varsP, varsW, varsT>>

\* Time passes between two messages
Wait ==
    /\ \E t \in SendTimes : t > utcnow /\ utcnow' = t
    /\ UNCHANGED <<user_windows, rt_metrics, answered, varsA, varsP, varsW, varsT>>

\* RealTimeService()
InitRealTime ==
    /\ user_windows = <<>>
    /\ rt_metrics = [messages_processed |-> 0, messages_blocked |-> 0,
                     rate_limited |-> 0, avg_latency_ms |-> 0]
    /\ utcnow = 0
    /\ answered = <<>>

\* ModerationFlinkProcessor() over a new StateBackend()
InitProcessor ==
    /\ heap = StateBackend.heap
    /\ keyed_state = StateBackend.keyed_state
    /\ checkpoints = StateBackend.checkpoints
    /\ operator_state = StateBackend.operator_state
    /\ current_watermark = StartTime
    /\ metrics = [records_processed |-> 0, late_records |-> 0, decisions_made |-> 0,
                  checkpoints_created |-> 0]
    /\ handled = <<>>
    /\ snapshots = <<>>
    /\ installed = NoneT
    /\ restore_calls = 0
    /\ epoch = NoneT
    /\ first_run = <<>>
    /\ replay = NoneT

(***************************************************************************)
(* The transports: the simulated Kinesis stream with its consumer, and the *)
(* simulated SQS queues with their consumer                                *)
(***************************************************************************)
shard_count == 4
limit == 100
MaxPuts == 2
MaxPolls == 3

ShardIds == 0 .. shard_count - 1
Channels == {"lobby", "trade"}
Chatters == {"p1", "p2"}
\* hash(partition_key) is fixed for one interpreter run and differs between runs
HashValues == {0 - 5, 0, 2, 5}

\* Sequence number f"{shard_id}-{counter:012d}" is the pair <<shard_id, counter>>
KinesisShard(shard_id) == [shard_id |-> shard_id, records |-> <<>>, sequence_counter |-> 0]

KinesisShard_put_record(shard, partition_key, data) ==
    LET counter == shard.sequence_counter + 1
        sequence_number == <<shard.shard_id, counter>>
        record == [sequence_number |-> sequence_number, partition_key |-> partition_key,
                   data |-> data]
    IN [shard |-> [shard EXCEPT !.sequence_counter = counter,
                                !.records = Append(@, record)],
        returned |-> sequence_number]

KinesisShard_get_records(shard, start_sequence, n) ==
    IF start_sequence = NoneT
    THEN SubSeq(shard.records, 1, Min(n, Len(shard.records)))
    ELSE LET found == {i \in DOMAIN shard.records :
                          shard.records[i].sequence_number = start_sequence[1]}
             start_idx == IF found = {} THEN 0
                          ELSE CHOOSE i \in found : \A j \in found : i <= j
         IN SubSeq(shard.records, start_idx + 1,
                   Min(start_idx + n, Len(shard.records)))

_get_shard_for_key(hashes, partition_key) == Abs(hashes[partition_key]) % shard_count

\* The iterator string "shard:TYPE:sequence" as a record
get_shard_iterator(shard_id, iterator_type, starting_sequence) ==
    [shard_id |-> shard_id, iterator_type |-> iterator_type,
     starting_sequence |-> starting_sequence]

\* KinesisStream.get_records reads the shard named by the iterator with limit only
KinesisStream_get_records(stream_shards, shard_iterator, n) ==
    IF shard_iterator.shard_id \notin DOMAIN stream_shards
    THEN [records |-> <<>>, next_iterator |-> shard_iterator]
    ELSE LET shard == stream_shards[shard_iterator.shard_id]
             records == KinesisShard_get_records(shard, NoneT, n)
             next_seq == IF records # <<>>
                         THEN Some(records[Len(records)].sequence_number) ELSE NoneT
         IN [records |-> records,
             next_iterator |-> get_shard_iterator(shard_iterator.shard_id,
                                                  "AFTER_SEQUENCE_NUMBER", next_seq)]

\* ChatStreamProducer.send_message: the next chat message of a user in a channel
send_message ==
    /\ Len(sent) < MaxPuts
    /\ \E user_id \in Chatters, channel_id \in Channels :
           LET message == [id |-> Len(sent) + 1, user_id |-> user_id,
                           channel_id |-> channel_id]
               partition_key == message.channel_id
               payload == [message_id |-> message.id, user_id |-> message.user_id,
                           channel_id |-> message.channel_id]
               shard_idx == _get_shard_for_key(key_hash, partition_key)
               put == KinesisShard_put_record(shards[shard_idx], partition_key, payload)
           IN /\ shards' = [shards EXCEPT ![shard_idx] = put.shard]
              /\ sent' = Append(sent, [message |-> message,
                                       sequence_number |-> put.returned,
                                       consumer_running |-> running])
    /\ UNCHANGED <<key_hash, running, iterators, consumer_checkpoints, processor_log,
                   polls>>

\* KinesisConsumer.start: one task per shard, each from its checkpoint or from LATEST
KinesisConsumer_start ==
    /\ ~running
    /\ \A shard_id \in ShardIds : iterators[shard_id] = NoneT
    /\ running' = TRUE
    /\ iterators' =
           [shard_id \in ShardIds |->
               Some(IF consumer_checkpoints[shard_id] # NoneT
                    THEN get_shard_iterator(
                             shard_id, "AFTER_SEQUENCE_NUMBER",
                             Some(consumer_checkpoints[shard_id][1].sequence_number))
                    ELSE get_shard_iterator(shard_id, "LATEST", NoneT))]
    /\ UNCHANGED <<key_hash, shards, consumer_checkpoints, processor_log, sent, polls>>

\* One round of the polling loop of the task of shard_id
_consume_shard(shard_id) ==
    /\ running
    /\ iterators[shard_id] # NoneT
    /\ polls < MaxPolls
    /\ LET got == KinesisStream_get_records(shards, iterators[shard_id][1], limit)
       IN /\ IF got.records # <<>>
             THEN /\ processor_log' = processor_log \o got.records
                  /\ consumer_checkpoints' =
                         [consumer_checkpoints EXCEPT ![shard_id] =
                             Some([shard_id |-> shard_id,
                                   sequence_number |->
                                       got.records[Len(got.records)].sequence_number,
                                   consumer_id |-> "consumer"])]
             ELSE UNCHANGED <<processor_log, consumer_checkpoints>>
          /\ iterators' = [iterators EXCEPT ![shard_id] = Some(got.next_iterator)]
    /\ polls' = polls + 1
    /\ UNCHANGED <<key_hash, shards, running, sent>>

KinesisConsumer_stop ==
    /\ running
    /\ running' = FALSE
    /\ UNCHANGED <<key_hash, shards, iterators, consumer_checkpoints, processor_log,
                   sent, polls>>

\* KinesisStream(name) with a KinesisConsumer and a producer, nothing sent
InitKinesisStream ==
    /\ shards = [shard_id \in ShardIds |-> KinesisShard(shard_id)]
    /\ running = FALSE
    /\ iterators = [shard_id \in ShardIds |-> NoneT]
    /\ consumer_checkpoints = [shard_id \in ShardIds |-> NoneT]
    /\ processor_log = <<>>
    /\ sent = <<>>
    /\ polls = 0

max_receive_count == 3
batch_size == 10
MaxSubmits == 5

\* message_id and receipt_handle are two fresh uuid4 values
SQSQueue(with_dlq) ==
    [messages |-> <<>>, in_flight |-> EmptyDict, has_dead_letter_queue |-> with_dlq]

SQSQueue_send_message(queue, n, body) ==
    [queue EXCEPT !.messages =
        Append(@, [message_id |-> n, receipt_handle |-> n + MaxSubmits, body |-> body,
                   approximate_receive_count |-> 1])]

\* receive_messages: rounds more iterations of the loop on the queue pair q
RECURSIVE receive_loop(_, _)
receive_loop(q, rounds) ==
    IF rounds = 0 \/ q.queue.messages = <<>> THEN q
    ELSE LET popped == q.queue.messages[1]
             message == [popped EXCEPT !.approximate_receive_count = @ + 1]
             rest == [q.queue EXCEPT !.messages = Tail(@)]
         IN IF message.approximate_receive_count > max_receive_count
            THEN receive_loop(
                     [q EXCEPT !.queue = rest,
                               !.dead_letter_queue =
                                   IF q.queue.has_dead_letter_queue
                                   THEN [@ EXCEPT !.messages = Append(@, message)]
                                   ELSE @],
                     rounds - 1)
            ELSE receive_loop(
                     [q EXCEPT !.queue =
                                   [rest EXCEPT !.in_flight =
                                       (message.receipt_handle :> message) @@ @],
                               !.received = Append(@, message)],
                     rounds - 1)

receive_messages(queue, dead_letter_queue, max_messages) ==
    receive_loop([queue |-> queue, dead_letter_queue |-> dead_letter_queue,
                  received |-> <<>>],
                 Min(max_messages, Len(queue.messages)))

delete_message(queue, receipt_handle) ==
    IF receipt_handle \in DOMAIN queue.in_flight
    THEN [queue EXCEPT !.in_flight =
             [h \in DOMAIN @ \ {receipt_handle} |-> @[h]]]
    ELSE queue

RECURSIVE delete_messages(_, _)
delete_messages(queue, messages) ==
    IF messages = <<>> THEN queue
    ELSE delete_messages(delete_message(queue, messages[1].receipt_handle),
                         Tail(messages))

\* ContentModerationSQSHandler.submit_content
submit_content ==
    /\ submitted < MaxSubmits
    /\ submitted' = submitted + 1
    /\ tier1_queue' = SQSQueue_send_message(
                          tier1_queue, submitted + 1,
                          [type |-> "content_submission", content |-> submitted + 1,
                           processing_stage |-> "tier1"])
    /\ UNCHANGED <<dlq, consumer_metrics, acknowledged, raised_for>>

\* One round of the loop of SQSConsumer.start on the tier 1 queue; the processor
\* returns or raises
SQSConsumer_round ==
    \E raises \in BOOLEAN :
        LET got == receive_messages(tier1_queue, dlq, batch_size)
            messages == got.received
            ids == {messages[i].message_id : i \in DOMAIN messages}
        IN /\ dlq' = got.dead_letter_queue
           /\ IF messages # <<>>
              THEN IF ~raises
                   THEN /\ tier1_queue' = delete_messages(got.queue, messages)
                        /\ consumer_metrics' =
                               [consumer_metrics EXCEPT
                                   !.messages_received = @ + Len(messages),
                                   !.messages_processed = @ + Len(messages),
                                   !.batches_processed = @ + 1]
                        /\ acknowledged' = acknowledged \cup ids
                        /\ UNCHANGED raised_for
                   ELSE /\ tier1_queue' = got.queue
                        /\ consumer_metrics' =
                               [consumer_metrics EXCEPT
                                   !.messages_received = @ + Len(messages),
                                   !.messages_failed = @ + Len(messages)]
                        /\ raised_for' = raised_for \cup ids
                        /\ UNCHANGED acknowledged
              ELSE /\ tier1_queue' = got.queue
                   /\ UNCHANGED <<consumer_metrics, acknowledged, raised_for>>
           /\ UNCHANGED submitted

\* ContentModerationSQSHandler() with a started SQSConsumer on the tier 1 queue
InitSQS ==
    /\ tier1_queue = SQSQueue(TRUE)
    /\ dlq = SQSQueue(FALSE)
    /\ consumer_metrics = [messages_received |-> 0, messages_processed |-> 0,
                           messages_failed |-> 0, batches_processed |-> 0]
    /\ acknowledged = {}
    /\ raised_for = {}
    /\ submitted = 0

\* The transports as constructed, nothing sent
InitTransport ==
    /\ key_hash = [channel_id \in Channels |-> 0]
    /\ InitKinesisStream
    /\ InitSQS

\* ModerationFlinkProcessor(): the processor with its session assigner, never called
InitB ==
    /\ InitProcessor
    /\ assigner = SessionWindowAssigner(120)
    /\ assigned = <<>>
    /\ InitRealTime
    /\ InitTransport

\* ModerationService(): no user is registered
InitService ==
    /\ now = 0
    /\ users = EmptyDict
    /\ reputation_cache = {}
    /\ recent_hashes = {}
    /\ calls = 0
    /\ last = NoneT
    /\ observed = NoneT

InitA ==
    /\ now = 0
    /\ \E p \in Profiles : users = ("u1" :> ProfileUser(p))
    /\ reputation_cache = {}
    /\ recent_hashes = {}
    /\ calls = 0
    /\ last = NoneT
    /\ observed = NoneT

\* A reputation service at the start of a run, or one that has already recorded up
\* to MaxSeed violations of a new user
InitReputation ==
    /\ now = 0
    /\ \E p \in Profiles, k \in 0 .. MaxSeed :
           /\ k > 0 => p = "new"
           /\ users = Seeded(p, k).users
           /\ reputation_cache = Seeded(p, k).reputation_cache
    /\ recent_hashes = {}
    /\ calls = 0
    /\ last = NoneT
    /\ observed = NoneT

Init == InitA /\ InitB

NextA ==
    \/ Submit
    \/ Resubmit
    \/ Tick

Next == NextA /\ UNCHANGED varsB

Spec == Init /\ [][Next]_vars

\* The reputation service called directly
NextReputation ==
    \/ (RecordViolation /\ UNCHANGED varsB)
    \/ (RecordApproval /\ UNCHANGED varsB)
    \/ (GetRiskProfile /\ UNCHANGED varsB)
    \/ (UpdateVelocity /\ UNCHANGED varsB)
    \/ (Elapse /\ UNCHANGED varsB)
InitDirect == InitReputation /\ InitB
SpecReputation == InitDirect /\ [][NextReputation]_vars

\* Risk levels and risk profiles
NextRisk ==
    \/ (CalculateRiskLevel /\ UNCHANGED varsB)
    \/ (GetRiskProfile /\ UNCHANGED varsB)
SpecRisk == InitDirect /\ [][NextRisk]_vars

\* The decision steps of the orchestrator called directly
NextDecision ==
    \/ (MakeFinalDecision /\ UNCHANGED varsB)
    \/ (CreateReviewTask /\ UNCHANGED varsB)
    \/ (Tick /\ UNCHANGED varsB)
SpecDecision == Init /\ [][NextDecision]_vars

\* The pipeline and the reputation service side by side
NextHistory ==
    \/ (Submit /\ UNCHANGED varsB)
    \/ (RecordViolation /\ UNCHANGED varsB)
    \/ (RecordApproval /\ UNCHANGED varsB)
    \/ (GetRiskProfile /\ UNCHANGED varsB)
    \/ (UpdateVelocity /\ UNCHANGED varsB)
SpecHistory == Init /\ [][NextHistory]_vars

\* Contents of users whose records carry automatic sanctions
NextSanctions ==
    \/ (Submit /\ UNCHANGED varsB)
    \/ (RecordViolation /\ UNCHANGED varsB)
SpecSanctions == Init /\ [][NextSanctions]_vars

NextScorer ==
    \/ (Submit /\ UNCHANGED varsB)
    \/ (SubmitScorerDown /\ UNCHANGED varsB)
    \/ (Tick /\ UNCHANGED varsB)
SpecScorer == Init /\ [][NextScorer]_vars

\* The stream processor with checkpoints and recovery
InitStream == InitService /\ InitB

\* The triage service called directly
\* The duplicate cache is empty, or has one free place, or is full
InitTriage ==
    /\ now = 0
    /\ users = EmptyDict
    /\ reputation_cache = {}
    /\ \E free \in {0, 1, hash_cache_size} :
           recent_hashes = IF free = hash_cache_size THEN {}
                           ELSE {<<"others", hash_cache_size - free, "">>}
    /\ calls = 0
    /\ last = NoneT
    /\ observed = NoneT
    /\ InitB
NextTriage == Triage /\ UNCHANGED varsB
SpecTriage == InitTriage /\ [][NextTriage]_vars

NextStream ==
    \/ ProcessMessage
    \/ ReplayMessage
    \/ CreateCheckpoint
    \/ Restore
SpecStream == InitStream /\ [][NextStream]_vars

\* The stream processor consuming messages, nothing else
NextFifo == ProcessMessage
SpecFifo == InitStream /\ [][NextFifo]_vars

\* The state backend driven through its own interface
NextBackend ==
    \/ GetKeyedState
    \/ UpdateKeyedState
    \/ ClearKeyedState
    \/ Checkpoint
    \/ Restore
SpecBackend == InitStream /\ [][NextBackend]_vars


\* The stream processor fed one burst of one user
NextBurst == BurstMessage
SpecBurst == InitStream /\ [][NextBurst]_vars

\* The moderation service fed contents without text
NextTextless ==
    \/ (SubmitTextless /\ UNCHANGED varsB)
    \/ (Tick /\ UNCHANGED varsB)
SpecTextless == Init /\ [][NextTextless]_vars

(***************************************************************************)
(* The window assigners called directly                                    *)
(***************************************************************************)
MaxAssign == 3
\* event-times in milliseconds, in and out of order, on and off minute boundaries
WindowTimestamps == {0, 29000, 30000, 59000, 60000, 61500, 125000}
WindowSizes == {30, 60, 120}
SlidingParameters == {<<300, 60>>, <<120, 60>>, <<60, 30>>}
SessionGaps == {60, 120}

\* One assign_windows call on WindowElement(timestamp, data, key)
Assign(key, timestamp, A, returned) ==
    /\ Len(assigned) < MaxAssign
    /\ assigned' = Append(assigned, [key |-> key, timestamp |-> timestamp,
                                     returned |-> returned, before |-> assigner])
    /\ assigner' = A
    /\ UNCHANGED <<varsA, varsP, varsR, varsT>>

AssignTumbling ==
    /\ assigner.kind = "tumbling"
    /\ \E key \in ChatUsers, timestamp \in WindowTimestamps :
           Assign(key, timestamp, assigner,
                  tumbling_assign_windows(assigner.window_size_seconds, timestamp))

AssignSliding ==
    /\ assigner.kind = "sliding"
    /\ \E key \in ChatUsers, timestamp \in WindowTimestamps :
           Assign(key, timestamp, assigner,
                  sliding_assign_windows(assigner.window_size_seconds,
                                         assigner.slide_seconds, timestamp))

AssignSession ==
    /\ assigner.kind = "session"
    /\ \E key \in ChatUsers, timestamp \in WindowTimestamps :
           LET r == session_assign_windows(assigner, key, timestamp)
           IN Assign(key, timestamp, r.assigner, r.returned)

InitTumbling ==
    /\ InitService
    /\ InitProcessor
    /\ assigner \in {TumblingWindowAssigner(w) : w \in WindowSizes}
    /\ assigned = <<>>
    /\ InitRealTime
    /\ InitTransport
NextTumbling == AssignTumbling
SpecTumbling == InitTumbling /\ [][NextTumbling]_vars

InitSliding ==
    /\ InitService
    /\ InitProcessor
    /\ assigner \in {SlidingWindowAssigner(p[1], p[2]) : p \in SlidingParameters}
    /\ assigned = <<>>
    /\ InitRealTime
    /\ InitTransport
NextSliding == AssignSliding
SpecSliding == InitSliding /\ [][NextSliding]_vars

InitSession ==
    /\ InitService
    /\ InitProcessor
    /\ assigner \in {SessionWindowAssigner(g) : g \in SessionGaps}
    /\ assigned = <<>>
    /\ InitRealTime
    /\ InitTransport
NextSession == AssignSession
SpecSession == InitSession /\ [][NextSession]_vars

\* The chat stream: producer, stream and consumer
InitKinesis ==
    /\ InitService
    /\ InitProcessor
    /\ assigner = SessionWindowAssigner(120)
    /\ assigned = <<>>
    /\ InitRealTime
    /\ key_hash \in [Channels -> HashValues]
    /\ InitKinesisStream
    /\ InitSQS
NextKinesis ==
    \/ (send_message /\ UNCHANGED <<varsA, varsP, varsW, varsR, varsQ>>)
    \/ (KinesisConsumer_start /\ UNCHANGED <<varsA, varsP, varsW, varsR, varsQ>>)
    \/ (\E shard_id \in ShardIds :
            _consume_shard(shard_id) /\ UNCHANGED <<varsA, varsP, varsW, varsR, varsQ>>)
    \/ (KinesisConsumer_stop /\ UNCHANGED <<varsA, varsP, varsW, varsR, varsQ>>)
SpecKinesis == InitKinesis /\ [][NextKinesis]_vars

\* The tier 1 queue with its consumer; the consumer's loop keeps running
InitQueue == InitService /\ InitB
NextQueue ==
    \/ (submit_content /\ UNCHANGED <<varsA, varsP, varsW, varsR, varsK>>)
    \/ (SQSConsumer_round /\ UNCHANGED <<varsA, varsP, varsW, varsR, varsK>>)
SpecQueue ==
    /\ InitQueue
    /\ [][NextQueue]_vars
    /\ WF_vars(SQSConsumer_round /\ UNCHANGED <<varsA, varsP, varsW, varsR, varsK>>)

\* The real-time service fed live messages
InitLive == InitService /\ InitB
NextLive ==
    \/ RealTimeProcessMessage
    \/ Wait
SpecLive == InitLive /\ [][NextLive]_vars

(***************************************************************************)
(* Claims about Flow A                                                     *)
(***************************************************************************)
Called == last # NoneT
FastApproved == Called /\ last[1].routing_path = <<"risk_assessment", "fast_approve">>
Decision == last[1].result.decision
Registered == Called /\ last[1].content.user_id \in DOMAIN last[1].users_before
HistoryOf(us, user_id) == us[user_id].reputation.violation_history

\* C1: for every user, whatever the risk level, a content whose text matches a
\* critical pattern is rejected at triage (source triage, severity critical,
\* violations containing threat) and the ML scorer is never invoked for it.
C1_CriticalAlwaysRejected ==
    (Called /\ Len(_check_critical(text_or_empty(last[1].content.text_content))) > 0)
        => /\ Decision = "rejected"
           /\ last[1].result.decision_source = "tier1_triage"
           /\ last[1].result.severity = SEV_CRITICAL
           /\ "threat" \in Range(last[1].result.violations)
           /\ last[1].ml_calls = 0

\* C2: the fast-approve path (approved, source triage, severity none, no triage
\* call, no ML call, no review task, record_approval called) is taken if and only
\* if the risk level is trusted, the content has no image_url and no media_urls,
\* and the user is not bursting; otherwise the content goes to triage.
C2_FastApproveIff ==
    Called =>
        /\ FastApproved <=>
               /\ last[1].risk_profile.risk_level = "trusted"
               /\ ~last[1].content.image_url
               /\ ~last[1].content.media_urls
               /\ ~last[1].risk_profile.is_bursting
        /\ FastApproved =>
               /\ Decision = "approved"
               /\ last[1].result.decision_source = "tier1_triage"
               /\ last[1].result.severity = SEV_NONE
               /\ last[1].triage_calls = 0
               /\ last[1].ml_calls = 0
               /\ last[1].review_task = NoneT
               /\ last[1].approvals = 1
        /\ ~FastApproved =>
               /\ last[1].triage_calls = 1
               /\ last[1].routing_path[2] = "tier1_triage"

C2_Witness ==
    /\ FastApproved
    /\ last[1].users_before[last[1].content.user_id].reputation.approved_posts + 1
           = users[last[1].content.user_id].reputation.approved_posts

\* a trusted user who is bursting went to triage
C2_WitnessBursting ==
    /\ Called /\ ~FastApproved
    /\ last[1].risk_profile.risk_level = "trusted"
    /\ last[1].risk_profile.is_bursting
    /\ ~last[1].content.image_url /\ ~last[1].content.media_urls

\* C3: a content that passed triage is escalated exactly when the ML human-review
\* signal is true or the combined risk score is strictly greater than 0.6; at
\* exactly 0.6 with the signal false it proceeds to the final-decision step.
C3_EscalationThreshold ==
    (Called /\ last[1].ml_calls = 1) =>
        LET signal == score_content(last[1].content, last[1].draw).needs_human_review
            combined == last[1].result.combined_risk_score
        IN /\ (Decision = "escalated") <=> (signal \/ combined > 600000)
           /\ (combined = 600000 /\ ~signal) =>
                  /\ Decision \in {"approved", "quarantined", "rejected"}
                  /\ last[1].routing_path[4] = "decision"

C3_Witness ==
    /\ Called /\ last[1].ml_calls = 1
    /\ last[1].result.combined_risk_score = 600000
    /\ ~score_content(last[1].content, last[1].draw).needs_human_review
    /\ Decision = "approved"

\* C4: a review task is present in the result if and only if the decision is
\* escalated.
C4_ReviewTaskIffEscalated ==
    Called => ((last[1].review_task # NoneT) <=> (Decision = "escalated"))

C4_Witness ==
    /\ Called /\ Decision = "escalated" /\ last[1].review_task # NoneT
    /\ last[1].review_task[1].content_id = last[1].content.id

\* C5: after moderate_content, a rejected decision has appended exactly one
\* violation record per violation kind of the result, each with the result's
\* severity; an approved decision has applied record_approval exactly once; a
\* quarantined or escalated decision has left the reputation record as it was
\* when the risk profile was read.
C5_OutcomeRecording ==
    Registered =>
        LET u == last[1].content.user_id
            before == HistoryOf(last[1].users_profiled, u)
            after == HistoryOf(users, u)
            added == SubSeq(after, Len(before) + 1, Len(after))
            kinds == Range(last[1].result.violations)
        IN /\ Decision = "rejected" =>
                  /\ SubSeq(after, 1, Len(before)) = before
                  /\ Len(added) = Cardinality(kinds)
                  /\ {r.violation_type : r \in Range(added)} = kinds
                  /\ \A r \in Range(added) : r.severity = last[1].result.severity
           /\ Decision = "approved" =>
                  /\ last[1].approvals = 1
                  /\ users[u].reputation.approved_posts
                         = last[1].users_profiled[u].reputation.approved_posts + 1
                  /\ after = before
           /\ Decision \in {"quarantined", "escalated"} =>
                  users[u] = last[1].users_profiled[u]

\* C6: every completed call returns one moderation result for the given content
\* id, and its decision is approved, rejected, escalated or quarantined, never
\* pending.
C6_OneTerminalResult ==
    Called =>
        /\ last[1].result.content_id = last[1].content.id
        /\ Decision \in {"approved", "rejected", "escalated", "quarantined"}

C6_Witness ==
    /\ calls = 2
    /\ Decision = "rejected"
    /\ last[1].routing_path[3] = "tier1_block"
    /\ last[1].content.id = 2

\* C7: re-running moderate_content on the same content with an identical
\* reputation state and a deterministic scorer yields the same decision, decision
\* source, severity and violation set as the first run.
C7_RerunIdentical ==
    (Called /\ last[1].rerun_of # NoneT) => Summary(last[1]) = last[1].rerun_of[1]

(***************************************************************************)
(* Claims about Flow B                                                     *)
(***************************************************************************)
DecisionView(d) ==
    [decision |-> d.decision, severity |-> d.severity, violations |-> d.violations,
     user_message_count_1m |-> d.user_message_count_1m,
     user_message_count_5m |-> d.user_message_count_5m,
     is_rate_limited |-> d.is_rate_limited,
     is_repeat_message |-> d.is_repeat_message,
     is_burst_detected |-> d.is_burst_detected]

\* C8: after create_checkpoint, processing further messages and restoring that
\* checkpoint, replaying the same message sequence produces decisions identical
\* (decision, severity, violations, window counts, flags) to those produced the
\* first time.
C8_ReplayIdentical ==
    replay # NoneT =>
        \A i \in 1..Len(replay[1].done) :
            replay[1].expected[i].outcome.decision # NoneT =>
                /\ replay[1].done[i].decision # NoneT
                /\ DecisionView(replay[1].done[i].decision[1])
                       = DecisionView(replay[1].expected[i].outcome.decision[1])

\* C9: a checkpoint is a consistent snapshot: whatever is called after checkpoint()
\* returned id c, restore(c) installs exactly the keyed and operator state held at
\* the time of the checkpoint, every time it is called, and the state right after
\* restore(c) is that state.
C9_SnapshotConsistent ==
    /\ \A c \in 1..Len(checkpoints) :
           /\ Contents_of(Backend, checkpoints[c].keyed_state) = snapshots[c].keyed_state
           /\ checkpoints[c].operator_state = snapshots[c].operator_state
    /\ installed # NoneT =>
           /\ Contents_of(Backend, keyed_state) = snapshots[installed[1] + 1].keyed_state
           /\ operator_state = snapshots[installed[1] + 1].operator_state

\* the calls 1..n of the log that carry messages of the user of call n
OwnCalls(n) == {i \in 1..n : handled[i].message.user_id = handled[n].message.user_id}
InOrder(n) ==
    \A i, j \in OwnCalls(n) :
        i <= j => handled[i].message.timestamp <= handled[j].message.timestamp

\* C10: for the messages of one user processed in FIFO order, the
\* user_message_count_1m reported for message n equals the number of that user's
\* messages, n included, whose timestamps lie within the 60 seconds ending at
\* message n's timestamp.
C10_TrailingMinuteCount ==
    \A n \in 1..Len(handled) :
        (InOrder(n) /\ handled[n].outcome.decision # NoneT) =>
            handled[n].outcome.decision[1].user_message_count_1m =
                Cardinality({i \in OwnCalls(n) :
                    /\ handled[i].message.timestamp > handled[n].message.timestamp - 60000
                    /\ handled[i].message.timestamp <= handled[n].message.timestamp})

\* C11: when a single user sends 15 identical messages with increasing timestamps
\* inside 800 ms, there are 15 decisions whose user_message_count_1m values are
\* 1, 2, ..., 15 in order; the 11th is rejected with is_rate_limited true and the
\* 12th is rejected with is_repeat_message true.
C11_BurstOfFifteen ==
    \A n \in 1..Len(handled) :
        (n <= 15 /\ handled[n].message.timestamp - handled[1].message.timestamp < 800) =>
            /\ handled[n].outcome.decision # NoneT
            /\ handled[n].outcome.decision[1].user_message_count_1m = n
            /\ n = 11 => /\ handled[n].outcome.decision[1].decision = "rejected"
                         /\ handled[n].outcome.decision[1].is_rate_limited
            /\ n = 12 => /\ handled[n].outcome.decision[1].decision = "rejected"
                         /\ handled[n].outcome.decision[1].is_repeat_message

\* C12: when the text or image scorer fails during moderate_content, the failure is
\* not propagated: the call returns a triage-only result with the human-review
\* signal set and severity capped at medium.
C12_ScorerFallback ==
    (last # NoneT /\ last[1].ml_calls = 1 /\ last[1].draw = NoDraw
         /\ last[1].routing_path = <<"risk_assessment", "tier1_triage", "tier2_ml">>) =>
        /\ last[1].raised = NoneT
        /\ last[1].result # NoneT
        /\ last[1].result.decision_source = "tier1_triage"
        /\ last[1].result.decision = "escalated"
        /\ last[1].review_task # NoneT
        /\ last[1].result.severity <= SEV_MEDIUM

\* C13: for every content and every reachable reputation state the returned
\* combined_risk_score lies in [0, 1]; on the ML path it is 0.3 * triage confidence
\* + 0.5 * (1 - ML confidence) + 0.2 * risk score, and the risk score of a known
\* user is 1 - overall_score / 100.  (combined in 1/1000000, risk score in 1/100000.)
C13_CombinedRiskInUnitInterval ==
    (Called /\ last[1].result # NoneT) =>
        /\ last[1].result.combined_risk_score >= 0
        /\ last[1].result.combined_risk_score <= 1000000
        /\ Registered =>
               last[1].risk_profile.risk_score = 100000 -
                   last[1].users_profiled[last[1].content.user_id].reputation.overall_score
        /\ last[1].ml_calls = 1 =>
               last[1].result.combined_risk_score =
                     300 * last[1].triage_result[1].confidence
                   + 500 * (1000 - score_content(last[1].content,
                                                 last[1].draw).ml_scores.confidence)
                   + 2 * last[1].risk_profile.risk_score

\* a scored content of a registered user whose combined score is above one half
C13_Witness ==
    /\ Called /\ Registered /\ last[1].ml_calls = 1 /\ last[1].result # NoneT
    /\ last[1].result.combined_risk_score > 500000

\* The latest call was a direct call on the reputation service (time may have passed since).
Observed(op) == observed # NoneT /\ observed[1].seq = calls /\ observed[1].op = op
ObservedOnKnown(op) == Observed(op) /\ observed[1].user_id \in DOMAIN observed[1].users_before

C14_WitnessTrusted ==
    /\ ObservedOnKnown("get_risk_profile")
    /\ observed[1].returned[1].risk_level = "trusted"
    /\ observed[1].returned[1].fast_track_approved

\* C15: after record_violation on a known user, a violation of kind CSAM or threat
\* leaves the user banned regardless of history; otherwise, with n the user's
\* violations_last_30_days after the increment, n >= 5 bans the user for 30 days,
\* 3 <= n < 5 mutes the user for 24 hours (one day) and sets risk level restricted,
\* n = 2 sets risk level watch with rate-limit multiplier 2.0 (in tenths), and n = 1
\* leaves every sanction field as it was.
C15_AutomaticSanctions ==
    ObservedOnKnown("record_violation") =>
        LET before == observed[1].users_before[observed[1].user_id]
            after == users[observed[1].user_id]
            n == after.reputation.violations_last_30_days
        IN /\ n = before.reputation.violations_last_30_days + 1
           /\ observed[1].violation_type \in {"csam", "threat"} => after.is_banned
           /\ observed[1].violation_type \notin {"csam", "threat"} =>
                  /\ n >= 5 => (after.is_banned /\ after.banned_until = Some(observed[1].at + 30))
                  /\ (3 <= n /\ n < 5) =>
                         /\ after.is_muted /\ after.muted_until = Some(observed[1].at + 1)
                         /\ after.risk_level = "restricted"
                  /\ n = 2 => (after.risk_level = "watch"
                                  /\ after.rate_limit_multiplier = 20)
                  /\ n = 1 =>
                         /\ after.is_banned = before.is_banned
                         /\ after.banned_until = before.banned_until
                         /\ after.is_muted = before.is_muted
                         /\ after.muted_until = before.muted_until
                         /\ after.rate_limit_multiplier = before.rate_limit_multiplier

\* a fifth spam violation bans a user who was not banned before
C15_Witness ==
    /\ ObservedOnKnown("record_violation")
    /\ observed[1].violation_type = "spam"
    /\ users[observed[1].user_id].reputation.violations_last_30_days = 5
    /\ ~observed[1].users_before[observed[1].user_id].is_banned
    /\ users[observed[1].user_id].banned_until = Some(observed[1].at + 30)

\* C16: get_risk_profile is pure over the current user state: it leaves the user's
\* reputation record (overall score, approval rate, account-age factor,
\* last-updated) and the reputation cache unchanged; of the direct calls only
\* record_violation and record_approval change a reputation record.
C16_GetRiskProfilePure ==
    /\ ObservedOnKnown("get_risk_profile") =>
           LET before == observed[1].users_before[observed[1].user_id].reputation
               after == users[observed[1].user_id].reputation
           IN /\ after.overall_score = before.overall_score
              /\ after.approval_rate = before.approval_rate
              /\ after.account_age_factor = before.account_age_factor
              /\ after.last_updated = before.last_updated
              /\ reputation_cache = observed[1].cache_before
    /\ (observed # NoneT /\ observed[1].seq = calls
            /\ observed[1].op \in {"get_risk_profile", "update_velocity"}) =>
           \A user_id \in DOMAIN users :
               users[user_id].reputation = observed[1].users_before[user_id].reputation

IsPrefix(a, b) == Len(a) <= Len(b) /\ \A i \in 1 .. Len(a) : b[i] = a[i]

\* C17: the violation history of every user is append-only under record_violation,
\* record_approval, get_risk_profile, update_velocity and moderate_content: no step
\* removes a user or shortens a history, the records already present keep their
\* content and position, and a record_violation on a known user appends exactly one
\* record, the new violation, at the end.
C17_HistoryAppendOnly ==
    [][\A user_id \in DOMAIN users :
           /\ user_id \in DOMAIN users'
           /\ IsPrefix(HistoryOf(users, user_id), HistoryOf(users', user_id))
           /\ (/\ calls' = calls + 1
               /\ observed' # NoneT
               /\ observed'[1].seq = calls'
               /\ observed'[1].op = "record_violation"
               /\ observed'[1].user_id = user_id) =>
                  /\ Len(HistoryOf(users', user_id)) = Len(HistoryOf(users, user_id)) + 1
                  /\ LET added == HistoryOf(users', user_id)[Len(HistoryOf(users', user_id))]
                     IN /\ added.violation_type = observed'[1].violation_type
                        /\ added.severity = observed'[1].severity
                        /\ added.timestamp = now]_vars

\* a record_violation on a user whose history already holds a record
C17_Witness ==
    /\ ObservedOnKnown("record_violation")
    /\ Len(HistoryOf(observed[1].users_before, observed[1].user_id)) > 0
    /\ Len(HistoryOf(users, observed[1].user_id))
           = Len(HistoryOf(observed[1].users_before, observed[1].user_id)) + 1

\* The records of a history whose timestamp lies within the trailing 30 days
TrailingThirtyDays(history, t) ==
    Cardinality({i \in DOMAIN history : t - history[i].timestamp <= 30})

\* C18: at every point in time a user's violations_last_30_days equals the number of
\* records of that user's violation history whose timestamp lies within the
\* trailing 30 days, so the count goes down again once violations are older.
C18_TrailingThirtyDayCount ==
    \A user_id \in DOMAIN users :
        users[user_id].reputation.violations_last_30_days =
            TrailingThirtyDays(HistoryOf(users, user_id), now)

\* Elapsed times, in days from now, at which a history is looked at again
Deltas == {0, 30, 60, 90}
ImpactAt(user_id, t) == _calculate_violation_impact(HistoryOf(users, user_id), t)
SingleHighViolation(user_id) ==
    /\ Len(HistoryOf(users, user_id)) = 1
    /\ HistoryOf(users, user_id)[1].severity = SEV_HIGH
ScoreAt(user_id, t) == recalculated(users[user_id], t).overall_score

C19_WitnessCapped ==
    \E user_id \in DOMAIN users :
        /\ total_impact(HistoryOf(users, user_id), now + 30) > 100000
        /\ ImpactAt(user_id, now) = ImpactAt(user_id, now + 30)

\* The severities of the checks that match a text, given the duplicate cache
MatchedSeverities(text, hashes) ==
    IF Len(_check_critical(text)) > 0 THEN {SEV_CRITICAL}
    ELSE (IF _check_blocked_domains(text) THEN {SEV_HIGH} ELSE {})
         \cup (IF Len(_check_spam(text)) > 0 THEN {SEV_MEDIUM} ELSE {})
         \cup (IF Len(_check_profanity(text)) > 0 THEN {SEV_LOW} ELSE {})
         \cup (IF md5(text) \in hashes THEN {SEV_LOW} ELSE {})
SetMax(S) == CHOOSE m \in S : \A x \in S : x <= m

\* C20: for every triage result, should_block is true if and only if the final
\* severity is at least high, or the final severity is at least medium and the
\* confidence is at least 0.9, where the severity is the maximum severity over all
\* checks that matched (none when no check matched).
C20_ShouldBlockIff ==
    Observed("triage") =>
        LET result == observed[1].returned[1]
            text == text_or_empty(observed[1].content.text_content)
        IN /\ result.should_block <=>
                  \/ result.severity >= SEV_HIGH
                  \/ (result.severity >= SEV_MEDIUM /\ result.confidence >= 900)
           /\ result.severity =
                  SetMax(MatchedSeverities(text, observed[1].hashes_before) \cup {SEV_NONE})

\* a text that is spam at medium severity and profane at confidence 0.9 is blocked
C20_Witness ==
    /\ Observed("triage")
    /\ observed[1].returned[1].severity = SEV_MEDIUM
    /\ observed[1].returned[1].confidence = 900
    /\ observed[1].returned[1].should_block

\* a repeated spam text stays at medium severity below 0.9 and is not blocked
C20_WitnessDuplicate ==
    /\ Observed("triage")
    /\ observed[1].returned[1].severity = SEV_MEDIUM
    /\ observed[1].returned[1].confidence = 850
    /\ ~observed[1].returned[1].should_block

NoRepeats(list) == \A i \in DOMAIN list, j \in DOMAIN list : list[i] = list[j] => i = j

\* C21: the violation list of every triage result is deduplicated: each violation
\* kind appears at most once, also when several checks (blocked domain, spam
\* pattern, duplicate content) each report spam for the same content.
C21_TriageViolationsDeduplicated ==
    Observed("triage") => NoRepeats(observed[1].returned[1].violations)

\* The latest triage call repeats the text of an earlier one, and no call from that
\* one on took the cache over its capacity.
RepeatsEarlier ==
    /\ Observed("triage")
    /\ ~observed[1].exceeded
    /\ \E i \in DOMAIN observed[1].earlier :
           /\ observed[1].earlier[i].text = observed[1].content.text_content
           /\ \A j \in i .. Len(observed[1].earlier) : ~observed[1].earlier[j].exceeded
FlaggedDuplicate(result) ==
    /\ "duplicate_content" \in Range(result.matched_patterns)
    /\ "spam" \in Range(result.violations)
    /\ result.severity >= SEV_LOW
    /\ result.confidence >= 850

\* C22 as stated: if two triage calls carry the same text and the capacity of the
\* cache is not exceeded between them, the second call is flagged duplicate_content
\* (spam, severity at least low, confidence at least 0.85), whatever was triaged in
\* between.
C22_SecondCallFlagged ==
    RepeatsEarlier => FlaggedDuplicate(observed[1].returned[1])

\* C22, amended: the same for every text that matches no critical pattern; a text
\* that matches a critical pattern returns at the critical check, before the
\* duplicate check, so its repetition is rejected as critical and not flagged.
C22_DuplicateFlagged ==
    RepeatsEarlier =>
        IF Len(_check_critical(text_or_empty(observed[1].content.text_content))) = 0
        THEN FlaggedDuplicate(observed[1].returned[1])
        ELSE /\ observed[1].returned[1].severity = SEV_CRITICAL
             /\ "duplicate_content" \notin Range(observed[1].returned[1].matched_patterns)

\* a text is triaged, then another one, then the first again, and it is flagged
C22_Witness ==
    /\ RepeatsEarlier
    /\ Len(observed[1].earlier) = 2
    /\ observed[1].earlier[1].text = observed[1].content.text_content
    /\ observed[1].earlier[2].text # observed[1].content.text_content
    /\ FlaggedDuplicate(observed[1].returned[1])

\* C23: the triage duplicate cache is a bounded LRU: after every triage call it
\* holds at most 10000 hashes, and when an insertion exceeds the capacity the entry
\* evicted is the oldest one, never the hash just inserted nor a more recent one
\* (the digests the cache held at the start are older than every digest inserted
\* since).
C23_BoundedLru ==
    /\ hashes_len(recent_hashes) <= hash_cache_size
    /\ (/\ Observed("triage")
        /\ Len(_check_critical(text_or_empty(observed[1].content.text_content))) = 0
        /\ others_count(observed[1].hashes_before) > 0) =>
           /\ md5(text_or_empty(observed[1].content.text_content)) \in recent_hashes
           /\ (observed[1].hashes_before \ others(observed[1].hashes_before))
                  \subseteq recent_hashes

\* C24: the final-decision step evaluates its rules top-down on the combined
\* result: severity critical -> rejected; severity high and combined risk > 0.7 ->
\* rejected; severity medium -> quarantined; otherwise approved (so severity high
\* with combined risk <= 0.7, and severity low or none, are approved).
C24_FinalDecisionRules ==
    Observed("_make_final_decision") =>
        LET severity == observed[1].result.severity
            combined == observed[1].result.combined_risk_score
            decision == observed[1].returned[1]
        IN /\ (decision = "rejected") <=>
                  (severity = SEV_CRITICAL \/ (severity = SEV_HIGH /\ combined > 700000))
           /\ (decision = "quarantined") <=> (severity = SEV_MEDIUM)
           /\ (decision = "approved") <=>
                  \/ severity \in {SEV_NONE, SEV_LOW}
                  \/ (severity = SEV_HIGH /\ combined <= 700000)

\* a high severity with a combined risk of exactly 0.7 is approved
C24_Witness ==
    /\ Observed("_make_final_decision")
    /\ observed[1].result.severity = SEV_HIGH
    /\ observed[1].result.combined_risk_score = 700000
    /\ observed[1].returned = Some("approved")

\* The priority and the SLA bound (minutes) the claim gives a severity
PriorityOf(severity) ==
    CASE severity = SEV_CRITICAL -> PRIO_CRITICAL
      [] severity = SEV_HIGH -> PRIO_URGENT
      [] severity = SEV_MEDIUM -> PRIO_HIGH
      [] severity = SEV_LOW -> PRIO_MEDIUM
      [] severity = SEV_NONE -> PRIO_LOW
SlaBound(priority) ==
    CASE priority = PRIO_LOW -> 1440
      [] priority = PRIO_MEDIUM -> 240
      [] priority = PRIO_HIGH -> 60
      [] priority = PRIO_URGENT -> 15
      [] priority = PRIO_CRITICAL -> 5

\* C25: the review task's priority is derived from the combined severity by
\* critical -> critical, high -> urgent, medium -> high, low -> medium, none ->
\* low, and its SLA deadline is the creation time plus the bound of that priority
\* (low 1440, medium 240, high 60, urgent 15, critical 5 minutes); a higher
\* severity never gets a later deadline than a lower one created at the same time.
C25_ReviewPriorityAndDeadline ==
    Observed("_create_review_task") =>
        LET task == observed[1].returned[1]
            severity == observed[1].result.severity
        IN /\ task.priority = PriorityOf(severity)
           /\ task.created_at = observed[1].at
           /\ task.sla_minutes = SlaBound(task.priority)
           /\ \A milder \in Severities :
                  milder < severity =>
                      task.sla_minutes <= max_wait_time_minutes(priority_map(milder))

\* a task for a high severity is urgent and due 15 minutes after its creation
C25_Witness ==
    /\ Observed("_create_review_task")
    /\ observed[1].result.severity = SEV_HIGH
    /\ observed[1].returned[1].priority = PRIO_URGENT
    /\ observed[1].returned[1].sla_minutes = 15

\* The greatest of the initial watermark and the event-times of calls 1..n
RECURSIVE WatermarkAfter(_)
WatermarkAfter(n) ==
    IF n = 0 THEN StartTime ELSE Max(WatermarkAfter(n - 1), handled[n].message.timestamp)
LateCall(n) == handled[n].message.timestamp < WatermarkAfter(n - 1) - allowed_lateness

\* C26: over any sequence of process_message calls, in any event-time order, the
\* watermark equals the maximum of its initial value and all event-times seen (so
\* it never decreases); a message whose event-time is earlier than the watermark
\* minus the allowed lateness is counted in late_records and is still processed to
\* a decision, never dropped.
C26_WatermarkMonotone ==
    /\ current_watermark = WatermarkAfter(Len(handled))
    /\ metrics.late_records = Cardinality({n \in 1..Len(handled) : LateCall(n)})
    /\ \A n \in 1..Len(handled) : LateCall(n) => handled[n].outcome.decision # NoneT

(***************************************************************************)
(* Claims about the window assigners                                       *)
(***************************************************************************)
\* floor(t / w) for a timestamp in milliseconds and a size in seconds
Floor(timestamp, seconds) == timestamp \div (seconds * 1000)
Overlap(a, b) == a.start < b.end /\ b.start < a.end
TumblingCalls == IF assigner.kind = "tumbling" THEN 1..Len(assigned) ELSE {}

\* C27: for every window size w and every timestamp t the tumbling assigner returns
\* exactly one window, with start = floor(t/w)*w, end = start + w and
\* start <= t < end; windows of the same assigner never overlap, and two
\* timestamps get the same window exactly when floor(t/w) is equal.
C27_TumblingWindows ==
    LET w == assigner.window_size_seconds
    IN /\ \A n \in TumblingCalls :
              LET t == assigned[n].timestamp
                  returned == assigned[n].returned
              IN /\ Len(returned) = 1
                 /\ returned[1].start = Floor(t, w) * w * 1000
                 /\ returned[1].end = returned[1].start + w * 1000
                 /\ returned[1].start <= t /\ t < returned[1].end
       /\ \A n \in TumblingCalls, m \in TumblingCalls :
              LET a == assigned[n].returned[1]
                  b == assigned[m].returned[1]
              IN /\ (a # b) => ~Overlap(a, b)
                 /\ (a = b) <=> (Floor(assigned[n].timestamp, w)
                                    = Floor(assigned[m].timestamp, w))

SlidingCalls == IF assigner.kind = "sliding" THEN 1..Len(assigned) ELSE {}
\* The windows [k*s, k*s + w) that contain the timestamp, in milliseconds
AlignedWindows(window_size_seconds, slide_seconds, timestamp) ==
    {[start |-> k * slide_seconds * 1000,
      end |-> k * slide_seconds * 1000 + window_size_seconds * 1000] :
        k \in {j \in -10..10 :
                  /\ j * slide_seconds * 1000 <= timestamp
                  /\ timestamp < j * slide_seconds * 1000 + window_size_seconds * 1000}}
Ascending(windows) ==
    \A i \in 1..Len(windows), j \in 1..Len(windows) :
        i < j => windows[i].start < windows[j].start

\* C28: for window size w, slide s and timestamp t the sliding assigner returns
\* exactly the windows [k*s, k*s + w) (starts on multiples of the slide) whose
\* half-open range contains t, in ascending order of start; so two messages of the
\* same user that fall in the same aligned window are assigned the same
\* (start, end) pair.
C28_SlidingWindowsAligned ==
    LET w == assigner.window_size_seconds
        s == assigner.slide_seconds
    IN /\ \A n \in SlidingCalls :
              /\ Range(assigned[n].returned) = AlignedWindows(w, s, assigned[n].timestamp)
              /\ Ascending(assigned[n].returned)
       /\ \A n \in SlidingCalls, m \in SlidingCalls :
              (assigned[n].key = assigned[m].key)
                  => \A window \in AlignedWindows(w, s, assigned[n].timestamp)
                                       \cap AlignedWindows(w, s, assigned[m].timestamp) :
                         /\ window \in Range(assigned[n].returned)
                         /\ window \in Range(assigned[m].returned)

SessionCalls == IF assigner.kind = "session" THEN 1..Len(assigned) ELSE {}
\* The sessions dict after call n
SessionsAfter(n) ==
    IF n = Len(assigned) THEN assigner.sessions ELSE assigned[n + 1].before.sessions

\* C29: the session assigner keeps one (start, end) pair per key: for an element
\* with timestamp t, if a session exists for the key with t <= end + gap the
\* session's end becomes max(end, t) and its start is unchanged, otherwise a new
\* session (t, t) replaces it; the pair returned is the stored one, sessions of
\* other keys are untouched, and start <= end holds for every stored session.
C29_SessionPerKey ==
    /\ \A n \in SessionCalls :
           LET key == assigned[n].key
               t == assigned[n].timestamp
               before == assigned[n].before.sessions
               after == SessionsAfter(n)
               extends == key \in DOMAIN before /\ t <= before[key].end + assigner.gap
           IN /\ DOMAIN after = DOMAIN before \cup {key}
              /\ extends => /\ after[key].end = Max(before[key].end, t)
                            /\ after[key].start = before[key].start
              /\ ~extends => after[key] = [start |-> t, end |-> t]
              /\ assigned[n].returned = <<after[key]>>
              /\ \A other \in DOMAIN before : other # key => after[other] = before[other]
    /\ assigner.kind = "session"
           => \A key \in DOMAIN assigner.sessions :
                  assigner.sessions[key].start <= assigner.sessions[key].end

\* a session was extended by an element older than its start, another key has a
\* session of its own, and a later element opened a new session
C29_Witness ==
    /\ assigner.kind = "session"
    /\ Len(assigned) = 3
    /\ assigned[2].key = assigned[1].key
    /\ assigned[2].timestamp < assigned[1].timestamp
    /\ assigned[2].returned = assigned[1].returned
    /\ assigned[3].key # assigned[1].key
    /\ DOMAIN assigner.sessions = ChatUsers

(***************************************************************************)
(* Claims about RealTimeService                                            *)
(***************************************************************************)
\* The earlier sends, by the same user, of the message sent in call n
EarlierSends(n) ==
    {m \in 1..(n - 1) :
        /\ answered[m].message.user_id = answered[n].message.user_id
        /\ answered[m].message.text # "none"
        /\ normalized(answered[m].message.text) = normalized(answered[n].message.text)}

\* C30: a user who sends the same message text repeatedly has the repeats blocked
\* once the same message has been sent 3 or more times (duplicate threshold 3):
\* from that point each further repeat is rejected with a spam violation and
\* severity at least low, even if the user has sent no other distinct message.
C30_RepeatsBlocked ==
    \A n \in 1..Len(answered) :
        (answered[n].message.text # "none"
         /\ Cardinality(EarlierSends(n)) >= duplicate_threshold)
            => /\ answered[n].outcome.decision # NoneT
               /\ answered[n].outcome.decision[1].decision = "rejected"
               /\ "spam" \in Range(answered[n].outcome.decision[1].violations)
               /\ answered[n].outcome.decision[1].severity >= SEV_LOW

(***************************************************************************)
(* Claims about the stream processor's decisions                           *)
(***************************************************************************)
\* C35: process_message returns a decision for every message, including the second
\* and later messages of a user whose state is read back from the state backend:
\* after n calls decisions_made = records_processed = n, and no call ends in an
\* error after it has incremented the user's window counters.
C35_DecisionForEveryMessage ==
    /\ metrics.records_processed = Len(handled)
    /\ metrics.decisions_made = metrics.records_processed
    /\ \A n \in 1..Len(handled) :
           /\ handled[n].outcome.raised = NoneT
           /\ handled[n].outcome.decision # NoneT

\* The user_state dict stored in the backend for a user, if any
StoredUserState(user_key) ==
    IF user_key \in DOMAIN keyed_state
       /\ <<"user_state">> \in DOMAIN heap[keyed_state[user_key]]
    THEN Some(heap[keyed_state[user_key]][<<"user_state">>])
    ELSE NoneT

\* One process_message call on the message that follows, dt > 0 later, the
\* previous message of the same user
ConsecutiveStep ==
    /\ handled # <<>>
    /\ Len(handled') = Len(handled) + 1
    /\ handled'[Len(handled')].message.user_id = handled[Len(handled)].message.user_id
    /\ handled'[Len(handled')].message.timestamp > handled[Len(handled)].message.timestamp
    /\ StoredUserState(handled[Len(handled)].message.user_id) # NoneT

\* C34: for two consecutive messages of one user with timestamps dt > 0 apart, the
\* velocity stored after the second message is 0.3 * (1/dt) + 0.7 * v, where v is
\* the velocity stored before it and dt is measured against the previous message's
\* timestamp; hence a user sending messages less than 0.5 s apart at more than 2
\* messages per second is eventually reported with is_burst_detected true.
C34_VelocityMovingAverage ==
    /\ [][ConsecutiveStep =>
            LET user_key == handled[Len(handled)].message.user_id
                dt == handled'[Len(handled')].message.timestamp
                          - handled[Len(handled)].message.timestamp
                v == StoredUserState(user_key)[1].velocity
            IN /\ StoredUserState(user_key)' # NoneT
               /\ StoredUserState(user_key)'[1].velocity
                      = (3 * (1000000 \div dt) + 7 * v) \div 10]_vars
    /\ [](Len(handled) = BurstSize =>
            \E n \in 1..Len(handled) :
                /\ handled[n].outcome.decision # NoneT
                /\ handled[n].outcome.decision[1].is_burst_detected)

(***************************************************************************)
(* Claims about the order of the tiers                                     *)
(***************************************************************************)
\* Where a call occurs in the sequence of calls moderate_content made
Positions(name) == {i \in 1..Len(last[1].steps) : last[1].steps[i] = name}
Precedes(a, b) == \A j \in Positions(b) : \E i \in Positions(a) : i < j
\* The risk profile as the service state at the start of the call gives it
StartProfile ==
    get_risk_profile([users |-> last[1].users_before, reputation_cache |-> {}],
                     last[1].content.user_id, last[1].at).profile

\* C33: within one moderate_content call the tiers run strictly in order: the risk
\* profile is read exactly once and first, triage is invoked only when fast-approve
\* was refused, the ML scorer is invoked at most once and only after triage
\* returned should_block = false, score combination and the final decision happen
\* only after the ML result, and the risk score used in the combination is the
\* one read at the start.
C33_TiersInOrder ==
    Called =>
        /\ Positions("get_risk_profile") = {1}
        /\ Cardinality(Positions("triage")) <= 1
        /\ Positions("triage") # {} => ~_can_fast_approve(StartProfile, last[1].content)
        /\ Cardinality(Positions("score_content")) <= 1
        /\ Positions("score_content") # {} =>
               /\ Precedes("triage", "score_content")
               /\ last[1].triage_result # NoneT
               /\ ~last[1].triage_result[1].should_block
        /\ Precedes("score_content", "_combine_scores")
        /\ Precedes("_combine_scores", "_make_final_decision")
        /\ Precedes("_combine_scores", "_create_review_task")
        /\ Positions("_combine_scores") # {} =>
               last[1].result.combined_risk_score =
                   combined_risk(last[1].triage_result[1],
                                 score_content(last[1].content, last[1].draw),
                                 StartProfile)

\* a content of a registered user with a risk score of its own went through every
\* tier to the final decision
C33_Witness ==
    /\ Called /\ Registered
    /\ Positions("_make_final_decision") # {}
    /\ StartProfile.risk_score # 50000

Textless == Called /\ last[1].content.text_content \in {"none", ""}

\* C37: every content with missing or empty text (for example image-only content)
\* that is neither fast-approved nor blocked at triage is escalated to human
\* review with a review task, whatever its image analysis and combined risk are,
\* because the text scorer then reports confidence 0, below the 0.5 threshold.
C37_TextlessEscalated ==
    (Textless /\ last[1].result # NoneT /\ ~FastApproved
         /\ last[1].triage_result # NoneT /\ ~last[1].triage_result[1].should_block) =>
        /\ score_content(last[1].content, last[1].draw).ml_scores.confidence = 0
        /\ Decision = "escalated"
        /\ last[1].review_task # NoneT
        /\ last[1].routing_path =
               <<"risk_assessment", "tier1_triage", "tier2_ml", "human_escalation">>

\* an image-only content with a weapon found in the image, and an empty text with
\* nothing attached sent a second time, were both escalated
C37_Witness ==
    /\ Textless /\ ~FastApproved /\ Decision = "escalated"
    /\ \/ /\ last[1].content.image_url
          /\ last[1].content.text_content = "none"
          /\ last[1].draw.image.weapons_detected
       \/ /\ last[1].content.text_content = ""
          /\ ~last[1].content.image_url /\ ~last[1].content.media_urls
          /\ last[1].triage_result[1].violations = <<"spam">>

(***************************************************************************)
(* Claims about unknown users and stored sanctions                         *)
(***************************************************************************)
\* The latest direct call was made for a user id that was never registered
ObservedOnUnknown(op) ==
    Observed(op) /\ observed[1].user_id \notin DOMAIN observed[1].users_before
\* The profile of an unknown user: normal, risk score 0.5, no fast track
UnknownProfile(profile) ==
    /\ profile.risk_level = "normal"
    /\ profile.risk_score = 50000
    /\ ~profile.fast_track_approved

\* C38: for a user id that was never registered through create_user,
\* record_violation and record_approval change no state at all and
\* get_risk_profile always returns risk level normal with risk score 0.5 and
\* fast-track false; so no sequence of moderate_content outcomes for such a user
\* ever changes that user's routing or creates a reputation record.
C38_UnknownUserInert ==
    /\ \A op \in {"record_violation", "record_approval", "get_risk_profile"} :
           ObservedOnUnknown(op) =>
               /\ users = observed[1].users_before
               /\ reputation_cache = observed[1].cache_before
    /\ ObservedOnUnknown("get_risk_profile") => UnknownProfile(observed[1].returned[1])
    /\ (Called /\ ~Registered) =>
           /\ UnknownProfile(last[1].risk_profile)
           /\ ~FastApproved
           /\ last[1].content.user_id \notin DOMAIN users
           /\ last[1].content.user_id \notin reputation_cache

\* a content of an unknown user, submitted as the second call on the service, was
\* approved by the final decision
C38_Witness ==
    /\ Called /\ ~Registered /\ calls = 2
    /\ last[1].content.id = 2
    /\ Decision = "approved"
    /\ Positions("record_approval") # {}


\* Settings of a user record's sanction fields: none, a permanent ban, and a 30-day
\* ban together with a mute and the doubled rate limit multiplier.
SanctionSettings ==
    {[is_banned |-> FALSE, banned_until |-> NoneT, is_muted |-> FALSE,
      muted_until |-> NoneT, risk_level |-> "normal", rate_limit_multiplier |-> 10],
     [is_banned |-> TRUE, banned_until |-> NoneT, is_muted |-> FALSE,
      muted_until |-> NoneT, risk_level |-> "banned", rate_limit_multiplier |-> 10],
     [is_banned |-> TRUE, banned_until |-> Some(now + 30), is_muted |-> TRUE,
      muted_until |-> Some(now + 1), risk_level |-> "restricted",
      rate_limit_multiplier |-> 20]}

\* The service state S with the sanction fields of user_id set to sanctions
WithSanctions(S, user_id, sanctions) ==
    [S EXCEPT !.users[user_id] =
        [@ EXCEPT !.is_banned = sanctions.is_banned,
                  !.banned_until = sanctions.banned_until,
                  !.is_muted = sanctions.is_muted,
                  !.muted_until = sanctions.muted_until,
                  !.risk_level = sanctions.risk_level,
                  !.rate_limit_multiplier = sanctions.rate_limit_multiplier]]

RoutingView(profile) ==
    [risk_level |-> profile.risk_level, risk_score |-> profile.risk_score,
     fast_track_approved |-> profile.fast_track_approved]

\* Routing and decision of every outcome of moderate_content, per triage result and
\* model scores
OutcomeViews(S, content) ==
    {[routing_path |-> o.out.routing_path, decision |-> o.out.result.decision,
      triage_result |-> o.out.triage_result, draw |-> o.out.draw] :
        o \in moderate_content_outcomes(S, content, recent_hashes)}

BannedBefore ==
    /\ Called /\ Registered
    /\ last[1].users_before[last[1].content.user_id].is_banned

HandledAt(id) == {i \in DOMAIN processor_log : processor_log[i].data.message_id = id}
FirstHandled(id) == CHOOSE i \in HandledAt(id) : \A j \in HandledAt(id) : i <= j

\* C31: Flow B guarantees per-user ordering.  Of any two chat messages of the same
\* user sent through ChatStreamProducer and passed by KinesisConsumer to the
\* processor, the one produced first is handled first, whatever the order in which the
\* shard tasks poll and whatever channels the user writes in.
C31_PerUserOrdering ==
    \A a, b \in DOMAIN sent :
        (/\ a < b
         /\ sent[a].message.user_id = sent[b].message.user_id
         /\ HandledAt(sent[a].message.id) # {}
         /\ HandledAt(sent[b].message.id) # {})
            => FirstHandled(sent[a].message.id) < FirstHandled(sent[b].message.id)

Deliveries(sequence_number) ==
    Cardinality({i \in DOMAIN processor_log :
                    processor_log[i].sequence_number = sequence_number})

\* C32: exactly-once delivery.  No record put to a shard while the consumer is running
\* is passed to the processor more than once across successive polls, and the
\* checkpoint of a shard is the sequence number of the record of that shard delivered
\* last.
C32_ExactlyOnce ==
    /\ \A i \in DOMAIN sent :
           sent[i].consumer_running => Deliveries(sent[i].sequence_number) <= 1
    /\ \A shard_id \in ShardIds :
           LET delivered == {i \in DOMAIN processor_log :
                                processor_log[i].sequence_number[1] = shard_id}
           IN IF delivered = {} THEN consumer_checkpoints[shard_id] = NoneT
              ELSE /\ consumer_checkpoints[shard_id] # NoneT
                   /\ consumer_checkpoints[shard_id][1].sequence_number =
                          processor_log[CHOOSE i \in delivered :
                                           \A j \in delivered : j <= i].sequence_number

InQueue(id) == \E i \in DOMAIN tier1_queue.messages : tier1_queue.messages[i].message_id = id
InFlight(id) ==
    \E h \in DOMAIN tier1_queue.in_flight : tier1_queue.in_flight[h].message_id = id
InDeadLetterQueue(id) == \E i \in DOMAIN dlq.messages : dlq.messages[i].message_id = id
Places(id) ==
    (IF InQueue(id) THEN 1 ELSE 0) + (IF InFlight(id) THEN 1 ELSE 0)
        + (IF InDeadLetterQueue(id) THEN 1 ELSE 0) + (IF id \in acknowledged THEN 1 ELSE 0)

\* C40: no message of an SQSQueue is stranded.  A message received by SQSConsumer
\* whose batch processing raised is not deleted, and it eventually becomes receivable
\* again from the queue or is moved to the dead-letter queue; at every moment each
\* sent message is in exactly one of the pending list, the in-flight map, the
\* dead-letter queue, or has been deleted after successful processing.
C40_NoMessageStranded ==
    /\ [](\A id \in 1 .. submitted : Places(id) = 1)
    /\ [](raised_for \cap acknowledged = {})
    /\ \A id \in 1 .. MaxSubmits :
           (id \in raised_for) ~> (InQueue(id) \/ InDeadLetterQueue(id))

====
